---- MODULE Spec2Model ----
(***************************************************************************)
(* Environment lifecycle manager (api/handlers/environment_handler.go),    *)
(* workspace executor (api/terraform/executor.go) and tenant controller    *)
(* (multi-tenancy/controller/main.go) of the Kubernetes environment        *)
(* provisioner, as a state machine.                                        *)
(*                                                                         *)
(* The record store is the DynamoDB table "environments": one item per     *)
(* environment ID.  Every HTTP handler and every goroutine started by a    *)
(* handler is a thread whose position is kept in a slot; a step of a       *)
(* thread is one access to the store, to the executor's state directory or *)
(* one run of the external tool.                                           *)
(***************************************************************************)
EXTENDS Integers, Sequences, FiniteSets, TLC

VARIABLES
    store,      \* the table "environments": the items it holds, by ID
    now,        \* the wall clock, in seconds (time.Now().Unix())
    creates,    \* the provisionEnvironment goroutines, one per accepted Create
    reqs,       \* accepted Update / Delete requests and their goroutines
    dirs,       \* the executor's statePath: directory name -> its files
    calls,      \* calls of Executor.Apply and Executor.Destroy made directly
    cluster,    \* the objects of the Kubernetes cluster, by kind and name
    tenants,    \* the declared tenants: what getTenants returns
    edits,      \* changes made to the declared tenants
    ctl,        \* the tenant controller: where its reconcile loop stands
    api         \* the write calls the controller has issued in this tick

ctlvars == <<cluster, tenants, edits, ctl, api>>

vars == <<store, now, creates, reqs, dirs, calls, cluster, tenants, edits, ctl, api>>

(***************************************************************************)
(* Bounds of the model.                                                    *)
(***************************************************************************)
MaxEnvs == 2        \* environments created
MaxRequests == 2    \* Update and Delete requests that pass their checks
MaxLoad == 4        \* threads in all, a provisioning goroutine counting twice
MaxClock == 2       \* seconds the clock runs through
MaxCalls == 3       \* direct calls of the executor

(***************************************************************************)
(* Values.  A Go pointer, slice or map is Nil or Some(v).                  *)
(***************************************************************************)
Nil == << >>
Some(v) == <<v>>

\* what uuid.New().String() can return: 36 characters
UUIDs == { "aaaaaaaa-0000-4000-8000-000000000001",
           "bbbbbbbb-0000-4000-8000-000000000002" }

Limits1 == [CPU |-> "2", Memory |-> "4Gi", Storage |-> "20Gi",
            MaxNodeCount |-> 3, MaxNamespaces |-> 5, MaxLoadBalancers |-> 1]
Limits2 == [CPU |-> "4", Memory |-> "8Gi", Storage |-> "40Gi",
            MaxNodeCount |-> 5, MaxNamespaces |-> 10, MaxLoadBalancers |-> 2]
LimitsBad == [CPU |-> "2", Memory |-> "4Gi", Storage |-> "20Gi",
              MaxNodeCount |-> 11, MaxNamespaces |-> 5, MaxLoadBalancers |-> 1]

\* request bodies of POST /environments
CreateRequests ==
    { [Name |-> "dev-env", Description |-> "d1", TemplateID |-> "t1",
       UserID |-> "alice", ResourceLimits |-> Limits1, NetworkPolicy |-> Nil,
       ServiceMesh |-> Some("mesh1"), Monitoring |-> Nil, GitOps |-> Nil,
       Addons |-> Some(<<"istio">>), Tags |-> Nil],
      [Name |-> "x", Description |-> "d1", TemplateID |-> "t1",
       UserID |-> "alice", ResourceLimits |-> Limits1, NetworkPolicy |-> Nil,
       ServiceMesh |-> Nil, Monitoring |-> Nil, GitOps |-> Nil,
       Addons |-> Nil, Tags |-> Nil] }

PatchFields == {"Description", "ResourceLimits", "NetworkPolicy", "ServiceMesh",
                "Monitoring", "GitOps", "Addons", "Tags"}

NoPatch == [f \in PatchFields |-> Nil]

\* request bodies of PATCH /environments/{id}: a field is Nil when absent
Patches ==
    { [NoPatch EXCEPT !.Description = Some("d2")],
      [NoPatch EXCEPT !.ResourceLimits = Some(Limits2), !.Tags = Some("tags2")],
      [NoPatch EXCEPT !.ResourceLimits = Some(LimitsBad)] }

(***************************************************************************)
(* validator.Struct, by the validate tags of the models.  "required" on a  *)
(* number rejects 0.                                                       *)
(***************************************************************************)
ValidLimits(l) ==
    /\ l.CPU # "" /\ l.Memory # "" /\ l.Storage # ""
    /\ l.MaxNodeCount # 0 /\ l.MaxNodeCount >= 1 /\ l.MaxNodeCount <= 10
    /\ l.MaxNamespaces # 0 /\ l.MaxNamespaces >= 1 /\ l.MaxNamespaces <= 20
    /\ l.MaxLoadBalancers # 0 /\ l.MaxLoadBalancers >= 0 /\ l.MaxLoadBalancers <= 5

ValidRequest(req) ==
    /\ req.Name # "" /\ Len(req.Name) >= 3 /\ Len(req.Name) <= 63
    /\ Len(req.Description) <= 255
    /\ req.TemplateID # ""
    /\ req.UserID # ""
    /\ ValidLimits(req.ResourceLimits)

ValidPatch(p) ==
    p.ResourceLimits # Nil => ValidLimits(p.ResourceLimits[1])

(***************************************************************************)
(* models.Environment and its image in the table.                          *)
(* attributevalue.MarshalMap writes every field of the struct as an        *)
(* attribute of the same name; a nil pointer, slice or map becomes the     *)
(* attribute value NULL (no field carries omitempty).                      *)
(***************************************************************************)
EnvFields == {"ID", "Name", "Description", "TemplateID", "UserID",
              "ResourceLimits", "NetworkPolicy", "ServiceMesh", "Monitoring",
              "GitOps", "Addons", "Tags", "Status", "StatusMessage",
              "ClusterName", "KubeConfig", "ConsoleURL", "CreatedAt",
              "UpdatedAt", "DeletedAt"}

Nullable == {"NetworkPolicy", "ServiceMesh", "Monitoring", "GitOps",
             "Addons", "Tags", "DeletedAt"}

NullAV == [NULL |-> TRUE]
ValueAV(v) == [V |-> v]

ZeroLimits == [CPU |-> "", Memory |-> "", Storage |-> "",
               MaxNodeCount |-> 0, MaxNamespaces |-> 0, MaxLoadBalancers |-> 0]

ZeroValue(a) ==
    IF a \in Nullable THEN Nil
    ELSE IF a \in {"CreatedAt", "UpdatedAt"} THEN 0
    ELSE IF a = "ResourceLimits" THEN ZeroLimits
    ELSE ""

\* var environment models.Environment
ZeroEnv == [a \in EnvFields |-> ZeroValue(a)]

MarshalMap(env) ==
    [a \in DOMAIN env |->
        IF a \in Nullable
        THEN (IF env[a] = Nil THEN NullAV ELSE ValueAV(env[a][1]))
        ELSE env[a]]

UnmarshalMap(item) ==
    [a \in EnvFields |->
        IF a \notin DOMAIN item THEN ZeroValue(a)
        ELSE IF a \in Nullable
             THEN (IF item[a] = NullAV THEN Nil ELSE Some(item[a].V))
        ELSE item[a]]

(***************************************************************************)
(* The DynamoDB operations the handlers use.  A table is a function from   *)
(* the keys it holds to their items.                                       *)
(***************************************************************************)
\* PutItem replaces the whole item
PutItem(tbl, item) == (item.ID :> item) @@ tbl

\* UpdateItem "SET a = :v, ...": the named attributes are written, the others
\* are left alone; an item is created when the key is not in the table
UpdateItem(tbl, id, sets) ==
    LET old == IF id \in DOMAIN tbl THEN tbl[id] ELSE [ID |-> id]
    IN  (id :> (sets @@ old)) @@ tbl

\* the filter function attribute_not_exists(a)
attribute_not_exists(item, a) == a \notin DOMAIN item

\* a filter comparison "#a = :v"
attribute_equals(item, a, v) == a \in DOMAIN item /\ item[a] = v

(***************************************************************************)
(* Workspace executor: names of working directories (executor.go).         *)
(***************************************************************************)
\* the bytes that occur in directory names, in increasing order
ByteOrder == "-0123456789abcdefghijklmnopqrstuvwxyz"

Byte(c) == CHOOSE i \in 1..Len(ByteOrder) : SubSeq(ByteOrder, i, i) = c

Char(s, i) == SubSeq(s, i, i)

\* a < b as Go compares strings (ioutil.ReadDir sorts by file name)
RECURSIVE StringLess(_, _)
StringLess(a, b) ==
    IF Len(b) = 0 THEN FALSE
    ELSE IF Len(a) = 0 THEN TRUE
    ELSE IF Char(a, 1) = Char(b, 1)
         THEN StringLess(SubSeq(a, 2, Len(a)), SubSeq(b, 2, Len(b)))
    ELSE Byte(Char(a, 1)) < Byte(Char(b, 1))

\* strings.HasPrefix
HasPrefix(s, prefix) ==
    Len(s) >= Len(prefix) /\ SubSeq(s, 1, Len(prefix)) = prefix

\* strings.Split(s, "-")
RECURSIVE SplitFrom(_, _, _)
SplitFrom(s, i, cur) ==
    IF i > Len(s) THEN <<cur>>
    ELSE IF Char(s, i) = "-" THEN <<cur>> \o SplitFrom(s, i + 1, "")
    ELSE SplitFrom(s, i + 1, cur \o Char(s, i))

Split(s) == SplitFrom(s, 1, "")

IsDigit(c) == \E i \in 2..11 : Char(ByteOrder, i) = c

DigitValue(c) == Byte(c) - 2

\* the decimal digits s starts with, read as a number
RECURSIVE ScanDigits(_, _, _)
ScanDigits(s, i, acc) ==
    IF i <= Len(s) /\ IsDigit(Char(s, i))
    THEN ScanDigits(s, i + 1, acc * 10 + DigitValue(Char(s, i)))
    ELSE [value |-> acc, read |-> i - 1]

\* StringToInt64: fmt.Sscanf(s, "%d", &result) reads the leading digits and
\* fails when there is none
StringToInt64(s) ==
    LET r == ScanDigits(s, 1, 0)
    IN  [value |-> r.value, err |-> r.read = 0]

\* fmt.Sprintf("%s-%d", module, time.Now().Unix())
WorkDir(module, t) == module \o "-" \o ToString(t)

\* the scan of GetOutputs over the sorted directory listing: the first
\* directory of the module whose time stamp exceeds every earlier one
RECURSIVE ScanDirs(_, _, _, _)
ScanDirs(names, module, latestDir, latestTime) ==
    IF names = {} THEN latestDir
    ELSE LET name == CHOOSE n \in names : \A m \in names \ {n} : StringLess(n, m)
             parts == Split(name)
             ts == IF Len(parts) > 1 THEN StringToInt64(parts[2])
                   ELSE [value |-> 0, err |-> TRUE]
             hit == /\ HasPrefix(name, module \o "-")
                    /\ Len(parts) > 1
                    /\ ~ts.err
                    /\ ts.value > latestTime
         IN  ScanDirs(names \ {name}, module,
                      IF hit THEN name ELSE latestDir,
                      IF hit THEN ts.value ELSE latestTime)

\* "" when the module has no directory
LatestDir(names, module) == ScanDirs(names, module, "", 0)

(***************************************************************************)
(* The external tool.  The variables file of provisionEnvironment and the  *)
(* outputs a successful apply leaves in the state of its directory.        *)
(***************************************************************************)
TerraformVars(env) ==
    [cluster_name |-> env.ClusterName,
     resource_limits |-> env.ResourceLimits,
     network_policy |-> env.NetworkPolicy,
     service_mesh |-> env.ServiceMesh,
     monitoring |-> env.Monitoring,
     gitops |-> env.GitOps,
     addons |-> env.Addons,
     tags |-> env.Tags]

\* what the module's outputs can look like: the kubeconfig and the console URL
\* are each a string or missing (or not a string), and a string may be empty
OutputShapes == {"full", "no-console", "empty-kubeconfig", "no-kubeconfig"}

\* the flattened map "terraform output -json" yields after an apply of vars
Outputs(tfvars, shape) ==
    [cluster_name |-> tfvars.cluster_name,
     kubeconfig |-> IF shape = "no-kubeconfig" THEN Nil
                    ELSE IF shape = "empty-kubeconfig" THEN Some("")
                    ELSE Some("kubeconfig:" \o tfvars.cluster_name),
     console_url |-> IF shape = "no-console" THEN Nil
                     ELSE Some("https://console/" \o tfvars.cluster_name)]

\* the outputs of a directory that was never applied: the empty map
NoOutputs == [cluster_name |-> "", kubeconfig |-> Nil, console_url |-> Nil]

(***************************************************************************)
(* Threads.                                                                *)
(*                                                                         *)
(* A slot of creates is the goroutine provisionEnvironment(env) of one     *)
(* accepted CreateEnvironment request: env is the record the handler built *)
(* and answered with, pc the position of the goroutine; workDir,           *)
(* latestDir, outputs and message are its locals, applied is what its own  *)
(* apply left in the tool's state, and trace lists the calls it has        *)
(* completed.                                                              *)
(*                                                                         *)
(* A slot of reqs is one UpdateEnvironment or DeleteEnvironment request    *)
(* that passed its checks: pc "put" is between its GetItem and its         *)
(* PutItem, pc "go" is the goroutine it started, env is its local copy of  *)
(* the record, code the HTTP status it answered (0: not yet), trace the    *)
(* calls its goroutine has made to the executor.                           *)
(*                                                                         *)
(* A request that is answered before it writes leaves the state as it is.  *)
(***************************************************************************)
CreateSlot(env) ==
    [env |-> env, pc |-> "start", workDir |-> "", latestDir |-> "",
     applied |-> NoOutputs, outputs |-> NoOutputs, message |-> "",
     trace |-> << >>]

RequestSlot(kind, envPatch, env) ==
    [kind |-> kind, patch |-> envPatch, code |-> 0, env |-> env, pc |-> "put",
     trace |-> << >>]

\* a goroutine that has returned: its locals are gone
Returned(c) ==
    [c EXCEPT !.pc = "done", !.workDir = "", !.latestDir = "",
              !.applied = NoOutputs, !.outputs = NoOutputs, !.message = "",
              !.trace = << >>]

(***************************************************************************)
(* The tenant controller (multi-tenancy/controller/main.go): its values.   *)
(* A Tenant is the declaration of a tenant; the cluster maps the key of an *)
(* object, <<kind, namespace, name>>, to the object.                       *)
(***************************************************************************)
\* os.Getenv("CLUSTER_NAME")
clusterName == "shared"

MockLimits ==
    [CPU |-> "8", Memory |-> "16Gi", Storage |-> "100Gi",
     Pods |-> 20, Services |-> 10, Endpoints |-> 100]

MockPolicy ==
    [AllowIngressFromCIDR |-> <<"10.0.0.0/8">>,
     AllowEgressToCIDR |-> <<"0.0.0.0/0">>,
     DefaultDenyIngress |-> TRUE, DefaultDenyEgress |-> FALSE,
     AllowIntraNamespace |-> TRUE, AllowCrossNamespace |-> FALSE,
     AllowExternalServices |-> << >>]

\* the tenant getTenants returns
Alpha ==
    [ID |-> "tenant-1", Name |-> "team-alpha", OwnerID |-> "user-1",
     Namespaces |-> <<"team-alpha-dev", "team-alpha-staging", "team-alpha-prod">>,
     ResourceLimits |-> MockLimits, NetworkPolicy |-> MockPolicy,
     ServiceMeshEnable |-> TRUE]

\* the list getTenants returns
getTenants == <<Alpha>>

\* a second tenant: one namespace, no network policy, no mesh
Beta ==
    [ID |-> "tenant-2", Name |-> "team-beta", OwnerID |-> "user-2",
     Namespaces |-> <<"team-beta-dev">>,
     ResourceLimits |-> MockLimits,
     NetworkPolicy |-> [MockPolicy EXCEPT !.AllowIngressFromCIDR = << >>,
                                          !.DefaultDenyIngress = FALSE,
                                          !.AllowIntraNamespace = FALSE],
     ServiceMeshEnable |-> FALSE]

\* declared limits: those of getTenants, changed ones (the CPU in
\* thousandths) and ones of which the CPU is no quantity
Limits ==
    {MockLimits,
     [CPU |-> "4000m", Memory |-> "8Gi", Storage |-> "100Gi",
      Pods |-> 10, Services |-> 10, Endpoints |-> 50],
     [MockLimits EXCEPT !.CPU = "eight"]}

CIDRLists == {<< >>, <<"10.0.0.0/8">>, <<"192.168.0.0/16">>,
              <<"10.0.0.0/8", "192.168.0.0/16">>}

\* the declarations of the tenant "tenant-1": the one of getTenants with its
\* flags, its limits, its CIDR list and owner, or its namespace list changed
AlphaVariants ==
    { [Alpha EXCEPT !.NetworkPolicy.DefaultDenyIngress = f[1],
                    !.NetworkPolicy.DefaultDenyEgress = f[2],
                    !.NetworkPolicy.AllowIntraNamespace = f[3],
                    !.ServiceMeshEnable = f[4]] :
        f \in BOOLEAN \X BOOLEAN \X BOOLEAN \X BOOLEAN }
    \cup { [Alpha EXCEPT !.ResourceLimits = l] : l \in Limits }
    \cup { [Alpha EXCEPT !.NetworkPolicy.AllowIngressFromCIDR = c,
                         !.OwnerID = o] :
             c \in CIDRLists, o \in {"user-1", "user-2"} }
    \cup { [Alpha EXCEPT !.Namespaces = n] :
             n \in {<<"team-alpha-dev">>,
                    <<"team-alpha-dev", "team-alpha-staging">>} }

\* the lists of tenants that can be declared
Declared ==
    { <<t>> : t \in AlphaVariants }
    \cup { <<[Alpha EXCEPT !.ResourceLimits = l], Beta>> : l \in Limits }

\* the steps of processTenant for one namespace, in order
Steps == <<"ensureNamespace", "ensureResourceQuota", "ensureNetworkPolicies",
           "ensureRBAC", "ensureServiceMesh">>

\* the controller before its first tick
Idle ==
    [state |-> "idle", ran |-> FALSE, list |-> << >>, t |-> 0, n |-> 0,
     step |-> 0, errors |-> {}, prev |-> Nil]

\* the weight of the threads there are
Load == 2 * Len(creates) + Len(reqs)

Init ==
    /\ store = << >>
    /\ now = 1
    /\ creates = << >>
    /\ reqs = << >>
    /\ dirs = << >>
    /\ calls = << >>
    /\ cluster = << >>
    /\ tenants = getTenants
    /\ edits = 0
    /\ ctl = Idle
    /\ api = << >>

\* time passes
Tick ==
    /\ now < MaxClock
    /\ now' = now + 1
    /\ UNCHANGED <<store, creates, reqs, dirs, calls, ctlvars>>

(***************************************************************************)
(* updateEnvironmentStatus: one UpdateItem; its error is only logged.      *)
(***************************************************************************)
updateEnvironmentStatus(tbl, envID, status, message, t) ==
    UpdateItem(tbl, envID,
               [Status |-> status, StatusMessage |-> message, UpdatedAt |-> t])

(***************************************************************************)
(* CreateEnvironment.                                                      *)
(***************************************************************************)
\* a derivation that keeps one character too few
ClusterNameOf_Short(envID) == "env-" \o SubSeq(envID, 1, 7)

\* fmt.Sprintf("env-%s", envID[:8])
ClusterNameOf(envID) == "env-" \o SubSeq(envID, 1, 8)

NewEnvironment(req, envID, t) ==
    [ID |-> envID,
     Name |-> req.Name,
     Description |-> req.Description,
     TemplateID |-> req.TemplateID,
     UserID |-> req.UserID,
     ResourceLimits |-> req.ResourceLimits,
     NetworkPolicy |-> req.NetworkPolicy,
     ServiceMesh |-> req.ServiceMesh,
     Monitoring |-> req.Monitoring,
     GitOps |-> req.GitOps,
     Addons |-> req.Addons,
     Tags |-> req.Tags,
     Status |-> "CREATING",
     StatusMessage |-> "Environment creation initiated",
     ClusterName |-> ClusterNameOf(envID),
     KubeConfig |-> "",
     ConsoleURL |-> "",
     CreatedAt |-> t,
     UpdatedAt |-> t,
     DeletedAt |-> Nil]

\* uuid.New(): an identifier no record was ever given
NewUUID(envID) == envID \in UUIDs \ DOMAIN store

\* the HTTP status of the answer
CreateEnvironmentAnswer(req, putOk) ==
    IF ~ValidRequest(req) THEN 400
    ELSE IF ~putOk THEN 500
    ELSE 201

\* the whole handler: on 201 the record is saved and
\* go h.provisionEnvironment(environment) has run
CreateEnvironmentOf(req, ids) ==
    /\ Len(creates) < MaxEnvs
    /\ Load + 2 <= MaxLoad
    /\ \E envID \in ids, putOk \in BOOLEAN :
         /\ envID \notin DOMAIN store
         /\ LET environment == NewEnvironment(req, envID, now)
            IN  IF CreateEnvironmentAnswer(req, putOk) = 201
                THEN /\ store' = PutItem(store, MarshalMap(environment))
                     /\ creates' = Append(creates, CreateSlot(environment))
                     /\ UNCHANGED <<now, reqs, dirs, calls, ctlvars>>
                ELSE UNCHANGED vars

\* the handler, uuid.New() returning one of UUIDs
CreateEnvironment(req) ==
    /\ \E envID \in UUIDs : NewUUID(envID)
    /\ CreateEnvironmentOf(req, UUIDs)

(***************************************************************************)
(* provisionEnvironment, step by step.                                     *)
(***************************************************************************)
\* err.Error(): the text of an error, with the captured stderr
ErrorText == "error"

Fail(c, event, message) ==
    [c EXCEPT !.pc = "set_error", !.message = message, !.workDir = "",
              !.trace = Append(@, event)]

\* h.updateEnvironmentStatus(env.ID, "PROVISIONING", ...)
ProvisionStart(i) ==
    /\ creates[i].pc = "start"
    /\ \E ok \in BOOLEAN :
         /\ store' = IF ok
                     THEN updateEnvironmentStatus(store, creates[i].env.ID,
                              "PROVISIONING", "Provisioning resources", now)
                     ELSE store
         /\ creates' = [creates EXCEPT ![i].pc = "apply_mkdir",
                           ![i].trace = Append(@, "updateEnvironmentStatus")]
    /\ UNCHANGED <<now, reqs, dirs, calls, ctlvars>>

\* Executor.Apply: the name of the working directory, from the module and
\* the second of the clock, and os.MkdirAll, which leaves a directory that
\* exists as it is
ApplyMkdir(i) ==
    /\ creates[i].pc = "apply_mkdir"
    /\ LET workDir == WorkDir("aws", now)
       IN  \/ \* os.MkdirAll failed
              /\ creates' = [creates EXCEPT ![i] = Fail(@, "Apply failed",
                    "Failed to provision resources: " \o ErrorText)]
              /\ UNCHANGED dirs
           \/ /\ creates' = [creates EXCEPT ![i].pc = "apply_write",
                                            ![i].workDir = workDir]
              /\ dirs' = IF workDir \in DOMAIN dirs THEN dirs
                         ELSE (workDir :> [tfvars |-> Nil, state |-> Nil]) @@ dirs
    /\ UNCHANGED <<store, now, reqs, calls, ctlvars>>

\* Executor.Apply: ioutil.WriteFile of the variables file.  The file is
\* opened with O_TRUNC: a write that fails leaves the file as it was or cut
\* short; tfvars is Nil when the directory holds no variables file the tool
\* can read
ApplyWrite(i) ==
    /\ creates[i].pc = "apply_write"
    /\ LET workDir == creates[i].workDir
       IN  \/ \* ioutil.WriteFile failed
              /\ creates' = [creates EXCEPT ![i] = Fail(@, "Apply failed",
                    "Failed to provision resources: " \o ErrorText)]
              /\ \/ UNCHANGED dirs
                 \/ dirs' = [dirs EXCEPT ![workDir].tfvars = Nil]
           \/ /\ creates' = [creates EXCEPT ![i].pc = "apply_init"]
              /\ dirs' = [dirs EXCEPT ![workDir].tfvars =
                              Some(TerraformVars(creates[i].env))]
    /\ UNCHANGED <<store, now, reqs, calls, ctlvars>>

\* Executor.Apply: runCommand "init"
ApplyInit(i) ==
    /\ creates[i].pc = "apply_init"
    /\ \/ \* init failed
          creates' = [creates EXCEPT ![i] = Fail(@, "Apply failed",
                "Failed to provision resources: " \o ErrorText)]
       \/ creates' = [creates EXCEPT ![i].pc = "apply_run"]
    /\ UNCHANGED <<store, now, reqs, dirs, calls, ctlvars>>

\* Executor.Apply: runCommand "apply"; the tool applies the variables file
\* that is in the directory, fails when it cannot read one, and records the
\* outputs in its state
ApplyRun(i) ==
    /\ creates[i].pc = "apply_run"
    /\ LET workDir == creates[i].workDir
       IN  \/ \* apply failed
              /\ creates' = [creates EXCEPT ![i] = Fail(@, "Apply failed",
                    "Failed to provision resources: " \o ErrorText)]
              /\ UNCHANGED dirs
           \/ /\ dirs[workDir].tfvars # Nil
              /\ \E shape \in OutputShapes :
                   LET out == Outputs(dirs[workDir].tfvars[1], shape)
                   IN  /\ dirs' = [dirs EXCEPT ![workDir].state = Some(out)]
                       /\ creates' = [creates EXCEPT ![i].pc = "outputs_list",
                                         ![i].applied = out,
                                         ![i].trace = Append(@, "Apply")]
    /\ UNCHANGED <<store, now, reqs, calls, ctlvars>>

\* Executor.GetOutputs: ioutil.ReadDir and the choice of the latest directory
OutputsList(i) ==
    /\ creates[i].pc = "outputs_list"
    /\ LET latestDir == LatestDir(DOMAIN dirs, "aws")
       IN  \/ \* ioutil.ReadDir failed
              creates' = [creates EXCEPT ![i] = Fail(@, "GetOutputs failed",
                 "Failed to get provisioning outputs: " \o ErrorText)]
           \/ creates' = [creates EXCEPT ![i] =
                 IF latestDir = ""
                 THEN Fail(@, "GetOutputs failed",
                           "Failed to get provisioning outputs: " \o ErrorText)
                 ELSE [@ EXCEPT !.pc = "outputs_run", !.latestDir = latestDir]]
    /\ UNCHANGED <<store, now, reqs, dirs, calls, ctlvars>>

\* configureKubernetesResources: the stub returns nil
configureKubernetesResources(env, kubeconfig) == Nil

\* Executor.GetOutputs: "terraform output -json" in the chosen directory, then
\* the extraction of the kubeconfig and the cluster bootstrap
OutputsRun(i) ==
    /\ creates[i].pc = "outputs_run"
    /\ LET state == dirs[creates[i].latestDir].state
           outputs == IF state = Nil THEN NoOutputs ELSE state[1]
           kubeconfig == outputs.kubeconfig
       IN  \/ creates' = [creates EXCEPT ![i] = Fail(@, "GetOutputs failed",
                 "Failed to get provisioning outputs: " \o ErrorText)]
           \/ creates' = [creates EXCEPT ![i] =
                 IF kubeconfig = Nil
                 THEN Fail([@ EXCEPT !.outputs = outputs,
                                     !.trace = Append(@, "GetOutputs")],
                           "kubeconfig missing", "Failed to get kubeconfig")
                 ELSE IF configureKubernetesResources(@.env, kubeconfig[1]) # Nil
                 THEN Fail([@ EXCEPT !.outputs = outputs,
                                     !.trace = @ \o <<"GetOutputs", "kubeconfig">>],
                           "configure failed",
                           "Failed to configure Kubernetes resources: " \o ErrorText)
                 ELSE [@ EXCEPT !.pc = "set_active", !.outputs = outputs,
                          !.trace = @ \o <<"GetOutputs", "kubeconfig", "configure">>]]
    /\ UNCHANGED <<store, now, reqs, dirs, calls, ctlvars>>

\* the UpdateItem that stores the kubeconfig, the console URL and ACTIVE
ActiveAttributes(kubeconfig, consoleURL, t) ==
    [KubeConfig |-> kubeconfig, ConsoleURL |-> consoleURL, Status |-> "ACTIVE",
     StatusMessage |-> "Environment provisioned successfully", UpdatedAt |-> t]

SetActive(i) ==
    /\ creates[i].pc = "set_active"
    /\ LET outputs == creates[i].outputs
           kubeconfig == outputs.kubeconfig[1]
           consoleURL == IF outputs.console_url = Nil THEN ""
                         ELSE outputs.console_url[1]
       IN  \E ok \in BOOLEAN :
             /\ store' = IF ok
                         THEN UpdateItem(store, creates[i].env.ID,
                                  ActiveAttributes(kubeconfig, consoleURL, now))
                         ELSE store
             /\ creates' = [creates EXCEPT ![i] = Returned(@)]
    /\ UNCHANGED <<now, reqs, dirs, calls, ctlvars>>

\* h.updateEnvironmentStatus(env.ID, "ERROR", message); return
SetError(i) ==
    /\ creates[i].pc = "set_error"
    /\ \E ok \in BOOLEAN :
         /\ store' = IF ok
                     THEN updateEnvironmentStatus(store, creates[i].env.ID,
                              "ERROR", creates[i].message, now)
                     ELSE store
         /\ creates' = [creates EXCEPT ![i] = Returned(@)]
    /\ UNCHANGED <<now, reqs, dirs, calls, ctlvars>>

(***************************************************************************)
(* UpdateEnvironment.                                                      *)
(***************************************************************************)
\* a merge that takes every field from the patch, present or not
ApplyPatch_Replace(environment, envPatch, t) ==
    [environment EXCEPT
        !.Description = IF envPatch.Description # Nil
                        THEN envPatch.Description[1] ELSE "",
        !.ResourceLimits = IF envPatch.ResourceLimits # Nil
                           THEN envPatch.ResourceLimits[1] ELSE ZeroLimits,
        !.NetworkPolicy = envPatch.NetworkPolicy,
        !.ServiceMesh = envPatch.ServiceMesh,
        !.Monitoring = envPatch.Monitoring,
        !.GitOps = envPatch.GitOps,
        !.Addons = envPatch.Addons,
        !.Tags = envPatch.Tags,
        !.UpdatedAt = t,
        !.Status = "UPDATING",
        !.StatusMessage = "Environment update initiated"]

\* "Apply updates": a field of the patch that is present replaces the field
\* of the record
ApplyPatch(environment, envPatch, t) ==
    [environment EXCEPT
        !.Description = IF envPatch.Description # Nil
                        THEN envPatch.Description[1] ELSE @,
        !.ResourceLimits = IF envPatch.ResourceLimits # Nil
                           THEN envPatch.ResourceLimits[1] ELSE @,
        !.NetworkPolicy = IF envPatch.NetworkPolicy # Nil
                          THEN envPatch.NetworkPolicy ELSE @,
        !.ServiceMesh = IF envPatch.ServiceMesh # Nil
                        THEN envPatch.ServiceMesh ELSE @,
        !.Monitoring = IF envPatch.Monitoring # Nil
                       THEN envPatch.Monitoring ELSE @,
        !.GitOps = IF envPatch.GitOps # Nil THEN envPatch.GitOps ELSE @,
        !.Addons = IF envPatch.Addons # Nil THEN envPatch.Addons ELSE @,
        !.Tags = IF envPatch.Tags # Nil THEN envPatch.Tags ELSE @,
        !.UpdatedAt = t,
        !.Status = "UPDATING",
        !.StatusMessage = "Environment update initiated"]

\* a check that takes a record marked as deleted for a live one
LoadAnswer_Unmarked(tbl, envID, getOk) ==
    IF ~getOk THEN 500
    ELSE IF envID \notin DOMAIN tbl THEN 404
    ELSE 0

\* the checks before a record is changed: the HTTP status of an early
\* answer, or 0 when the handler goes on (getOk: GetItem returned no error)
LoadAnswer(tbl, envID, getOk) ==
    IF ~getOk THEN 500
    ELSE IF envID \notin DOMAIN tbl THEN 404
    ELSE IF UnmarshalMap(tbl[envID]).DeletedAt # Nil THEN 404
    ELSE 0

\* an Update that does not validate its patch
UpdateEnvironmentAnswer_Unchecked(tbl, envID, envPatch, getOk) ==
    LoadAnswer(tbl, envID, getOk)

UpdateEnvironmentAnswer(tbl, envID, envPatch, getOk) ==
    IF ~ValidPatch(envPatch) THEN 400
    ELSE LoadAnswer(tbl, envID, getOk)

\* from the request to the merged local record, or to an early answer
UpdateEnvironmentRead(envID, envPatch) ==
    /\ Len(reqs) < MaxRequests
    /\ Load + 1 <= MaxLoad
    /\ \E getOk \in BOOLEAN :
         IF UpdateEnvironmentAnswer(store, envID, envPatch, getOk) = 0
         THEN /\ reqs' = Append(reqs, RequestSlot("Update", envPatch,
                            ApplyPatch(UnmarshalMap(store[envID]), envPatch, now)))
              /\ UNCHANGED <<store, now, creates, dirs, calls, ctlvars>>
         ELSE UNCHANGED vars

\* PutItem of the merged record, go h.updateEnvironment(environment), 200
UpdateEnvironmentWrite(r) ==
    /\ reqs[r].kind = "Update"
    /\ reqs[r].pc = "put"
    /\ \/ /\ reqs' = [reqs EXCEPT ![r].code = 500, ![r].pc = "done", ![r].env = ZeroEnv]
          /\ UNCHANGED store
       \/ /\ store' = PutItem(store, MarshalMap(reqs[r].env))
          /\ reqs' = [reqs EXCEPT ![r].code = 200, ![r].pc = "go"]
    /\ UNCHANGED <<now, creates, dirs, calls, ctlvars>>

\* the goroutine updateEnvironment
updateEnvironment(r) ==
    /\ reqs[r].kind = "Update"
    /\ reqs[r].pc = "go"
    /\ \E ok \in BOOLEAN :
         store' = IF ok
                  THEN updateEnvironmentStatus(store, reqs[r].env.ID, "ACTIVE",
                           "Environment updated successfully", now)
                  ELSE store
    /\ reqs' = [reqs EXCEPT ![r].pc = "done", ![r].env = ZeroEnv]
    /\ UNCHANGED <<now, creates, dirs, calls, ctlvars>>

(***************************************************************************)
(* DeleteEnvironment.                                                      *)
(***************************************************************************)
\* a Delete that stamps every time of the record
MarkDeleting_Restamp(environment, t) ==
    [environment EXCEPT
        !.Status = "DELETING",
        !.StatusMessage = "Environment deletion initiated",
        !.CreatedAt = t,
        !.UpdatedAt = t,
        !.DeletedAt = Some(t)]

MarkDeleting(environment, t) ==
    [environment EXCEPT
        !.Status = "DELETING",
        !.StatusMessage = "Environment deletion initiated",
        !.UpdatedAt = t,
        !.DeletedAt = Some(t)]

\* a Delete that goes on for every record there is, deleted or not
DeleteEnvironmentAnswer_Again(tbl, envID, getOk) ==
    IF ~getOk THEN 500
    ELSE IF envID \notin DOMAIN tbl THEN 404
    ELSE 0

DeleteEnvironmentAnswer(tbl, envID, getOk) == LoadAnswer(tbl, envID, getOk)

DeleteEnvironmentRead(envID) ==
    /\ Len(reqs) < MaxRequests
    /\ Load + 1 <= MaxLoad
    /\ \E getOk \in BOOLEAN :
         IF DeleteEnvironmentAnswer(store, envID, getOk) = 0
         THEN /\ reqs' = Append(reqs, RequestSlot("Delete", NoPatch,
                            MarkDeleting(UnmarshalMap(store[envID]), now)))
              /\ UNCHANGED <<store, now, creates, dirs, calls, ctlvars>>
         ELSE UNCHANGED vars

\* PutItem of the marked record, go h.deleteEnvironment(environment), 204
DeleteEnvironmentWrite(r) ==
    /\ reqs[r].kind = "Delete"
    /\ reqs[r].pc = "put"
    /\ \/ /\ reqs' = [reqs EXCEPT ![r].code = 500, ![r].pc = "done", ![r].env = ZeroEnv]
          /\ UNCHANGED store
       \/ /\ store' = PutItem(store, MarshalMap(reqs[r].env))
          /\ reqs' = [reqs EXCEPT ![r].code = 204, ![r].pc = "go"]
    /\ UNCHANGED <<now, creates, dirs, calls, ctlvars>>

\* the goroutine deleteEnvironment
deleteEnvironment(r) ==
    /\ reqs[r].kind = "Delete"
    /\ reqs[r].pc = "go"
    /\ \E ok \in BOOLEAN :
         store' = IF ok
                  THEN updateEnvironmentStatus(store, reqs[r].env.ID, "DELETED",
                           "Environment deleted successfully", now)
                  ELSE store
    /\ reqs' = [reqs EXCEPT ![r].pc = "done", ![r].env = ZeroEnv]
    /\ UNCHANGED <<now, creates, dirs, calls, ctlvars>>

(***************************************************************************)
(* The read handlers.  Each is one GetItem or one Scan (ok: the store      *)
(* answered) and changes nothing; its answer is a function of the table.   *)
(***************************************************************************)
GetEnvironmentResponse(tbl, envID, ok) ==
    IF LoadAnswer(tbl, envID, ok) # 0
    THEN [code |-> LoadAnswer(tbl, envID, ok)]
    ELSE [code |-> 200, body |-> UnmarshalMap(tbl[envID])]

\* a view whose status is sample data like the rest of the stub
getEnvironmentDetailedStatus_Sample(env) ==
    [Status |-> "ACTIVE", StatusMessage |-> "Environment provisioned successfully",
     ServiceMeshStatus |-> "Healthy", GitOpsStatus |-> "Synced"]

\* getEnvironmentDetailedStatus: the persisted status and message, and
\* the fixed sample data of the stub
getEnvironmentDetailedStatus(env) ==
    [Status |-> env.Status, StatusMessage |-> env.StatusMessage,
     ServiceMeshStatus |-> "Healthy", GitOpsStatus |-> "Synced"]

GetEnvironmentStatusResponse(tbl, envID, ok) ==
    IF LoadAnswer(tbl, envID, ok) # 0
    THEN [code |-> LoadAnswer(tbl, envID, ok)]
    ELSE [code |-> 200,
          body |-> getEnvironmentDetailedStatus(UnmarshalMap(tbl[envID]))]

\* the Scan filter: the comparisons asked for, AND attribute_not_exists(DeletedAt)
ScanFilter(item, userID, status) ==
    /\ userID # "" => attribute_equals(item, "UserID", userID)
    /\ status # "" => attribute_equals(item, "Status", status)
    /\ attribute_not_exists(item, "DeletedAt")

ListEnvironmentsResponse(tbl, userID, status, ok) ==
    IF ~ok THEN [code |-> 500]
    ELSE [code |-> 200,
          body |-> { UnmarshalMap(tbl[k]) :
                       k \in { j \in DOMAIN tbl : ScanFilter(tbl[j], userID, status) } }]

GetEnvironment(envID) ==
    /\ \E ok \in BOOLEAN : GetEnvironmentResponse(store, envID, ok).code \in {200, 404, 500}
    /\ UNCHANGED vars

GetEnvironmentStatus(envID) ==
    /\ \E ok \in BOOLEAN : GetEnvironmentStatusResponse(store, envID, ok).code \in {200, 404, 500}
    /\ UNCHANGED vars

ListEnvironments(userID, status) ==
    /\ \E ok \in BOOLEAN : ListEnvironmentsResponse(store, userID, status, ok).code \in {200, 500}
    /\ UNCHANGED vars

\* query strings of GET /environments: <<userId, status>>
Filters == {<<"", "">>, <<"alice", "">>, <<"", "ACTIVE">>, <<"bob", "DELETING">>}

(***************************************************************************)
(* The system.                                                             *)
(***************************************************************************)
Next ==
    \/ Tick
    \/ \E req \in CreateRequests : CreateEnvironment(req)
    \/ \E i \in 1..Len(creates) : ProvisionStart(i)
    \/ \E i \in 1..Len(creates) : ApplyMkdir(i)
    \/ \E i \in 1..Len(creates) : ApplyWrite(i)
    \/ \E i \in 1..Len(creates) : ApplyInit(i)
    \/ \E i \in 1..Len(creates) : ApplyRun(i)
    \/ \E i \in 1..Len(creates) : OutputsList(i)
    \/ \E i \in 1..Len(creates) : OutputsRun(i)
    \/ \E i \in 1..Len(creates) : SetActive(i)
    \/ \E i \in 1..Len(creates) : SetError(i)
    \/ \E envID \in UUIDs, envPatch \in Patches : UpdateEnvironmentRead(envID, envPatch)
    \/ \E r \in 1..Len(reqs) : UpdateEnvironmentWrite(r)
    \/ \E r \in 1..Len(reqs) : updateEnvironment(r)
    \/ \E envID \in UUIDs : DeleteEnvironmentRead(envID)
    \/ \E r \in 1..Len(reqs) : DeleteEnvironmentWrite(r)
    \/ \E r \in 1..Len(reqs) : deleteEnvironment(r)
    \/ \E envID \in UUIDs : GetEnvironment(envID)
    \/ \E envID \in UUIDs : GetEnvironmentStatus(envID)
    \/ \E f \in Filters : ListEnvironments(f[1], f[2])

Spec == Init /\ [][Next]_vars

(***************************************************************************)
(* The creation of environments and their Apply alone, uuid.New()          *)
(* returning any of a set of identifiers of which two begin with the same  *)
(* eight characters.                                                       *)
(***************************************************************************)
AnyUUIDs == UUIDs \cup {"aaaaaaaa-1111-4000-8000-000000000003"}

NameNext ==
    \/ Tick
    \/ \E req \in CreateRequests : CreateEnvironmentOf(req, AnyUUIDs)
    \/ \E i \in 1..Len(creates) : ProvisionStart(i)
    \/ \E i \in 1..Len(creates) : ApplyMkdir(i)
    \/ \E i \in 1..Len(creates) : ApplyWrite(i)
    \/ \E i \in 1..Len(creates) : ApplyInit(i)
    \/ \E i \in 1..Len(creates) : ApplyRun(i)

NameSpec == Init /\ [][NameNext]_vars

(***************************************************************************)
(* The create workflows alone: no Update or Delete request is issued.  A   *)
(* goroutine that can take a step takes it: the Go scheduler runs every    *)
(* runnable goroutine, and every call of the store and of the tool         *)
(* returns.                                                                *)
(***************************************************************************)
\* the next step of the goroutine provisionEnvironment of slot i
provisionEnvironment(i) ==
    /\ i \in 1..Len(creates)
    /\ \/ ProvisionStart(i)
       \/ ApplyMkdir(i)
       \/ ApplyWrite(i)
       \/ ApplyInit(i)
       \/ ApplyRun(i)
       \/ OutputsList(i)
       \/ OutputsRun(i)
       \/ SetActive(i)
       \/ SetError(i)

LiveNext ==
    \/ Tick
    \/ \E req \in CreateRequests : CreateEnvironment(req)
    \/ \E i \in 1..MaxEnvs : provisionEnvironment(i)

LiveSpec ==
    /\ Init
    /\ [][LiveNext]_vars
    /\ \A i \in 1..MaxEnvs : WF_vars(provisionEnvironment(i))

(***************************************************************************)
(* The executor on its own (executor.go): Apply and Destroy called by any  *)
(* caller, for any module and environment, step by step.  A slot of calls  *)
(* is one call: op, module and vars are its arguments, env the environment *)
(* it is made for, workDir its working directory, steps the steps it has   *)
(* run, stderr what the last command wrote to its standard error,          *)
(* returned whether it has returned and err the error it returned (Nil:    *)
(* nil); destroyed is the tool state its destroy step has destroyed.       *)
(***************************************************************************)
Modules == {"aws", "gcp"}

\* the environments calls are made for, by cluster name
Clusters == { ClusterNameOf(envID) : envID \in UUIDs }

\* what a failing command leaves on its standard error
Stderrs == {"", "Error: no such module"}

\* the last argument list of a call: "apply ..." or "destroy ..."
CommandOf(op) == IF op = "Apply" THEN "apply" ELSE "destroy"

\* an error of runCommand that leaves out what the command wrote
CommandError_Bare(cause, stderr) ==
    [msg |-> "terraform command failed", cause |-> cause, stderr |-> ""]

\* fmt.Errorf("terraform command failed: %w, stderr: %s", err, stderr.String())
CommandError(cause, stderr) ==
    [msg |-> "terraform command failed", cause |-> cause, stderr |-> stderr]

\* fmt.Errorf("<what> failed: %w", err)
Wrap(msg, err) == [msg |-> msg, cause |-> err]

CallSlot(op, module, env, t) ==
    [op |-> op, module |-> module, env |-> env,
     vars |-> [cluster_name |-> env],
     workDir |-> WorkDir(module, t), pc |-> "mkdir", steps |-> << >>,
     stderr |-> "", returned |-> FALSE, err |-> Nil, destroyed |-> Nil]

\* return err
ReturnError(c, err) == [c EXCEPT !.pc = "done", !.returned = TRUE, !.err = Some(err)]

\* a call of e.Apply(module, vars) or e.Destroy(module, vars) begins; Destroy
\* is called for an environment of which an Apply has returned nil
Call(op, module, env) ==
    /\ Len(calls) < MaxCalls
    /\ op = "Destroy" =>
          \E k \in 1..Len(calls) :
              /\ calls[k].op = "Apply" /\ calls[k].module = module
              /\ calls[k].env = env
              /\ calls[k].returned /\ calls[k].err = Nil
    /\ calls' = Append(calls, CallSlot(op, module, env, now))
    /\ UNCHANGED <<store, now, creates, reqs, dirs, ctlvars>>

\* os.MkdirAll(workPath, 0755)
MkdirAll(k) ==
    /\ calls[k].pc = "mkdir"
    /\ LET workDir == calls[k].workDir
       IN  \/ /\ calls' = [calls EXCEPT ![k] = ReturnError(@,
                     Wrap("failed to create work directory", "permission denied"))]
              /\ UNCHANGED dirs
           \/ /\ calls' = [calls EXCEPT ![k].pc = "write"]
              /\ dirs' = IF workDir \in DOMAIN dirs THEN dirs
                         ELSE (workDir :> [tfvars |-> Nil, state |-> Nil]) @@ dirs
    /\ UNCHANGED <<store, now, creates, reqs, ctlvars>>

\* ioutil.WriteFile(varsFile, varsJSON, 0644)
WriteFile(k) ==
    /\ calls[k].pc = "write"
    /\ LET workDir == calls[k].workDir
           c == [calls[k] EXCEPT !.steps = Append(@, "write")]
       IN  \/ /\ calls' = [calls EXCEPT ![k] = ReturnError(c,
                     Wrap("failed to write variables file", "no space left"))]
              /\ \/ UNCHANGED dirs
                 \/ dirs' = [dirs EXCEPT ![workDir].tfvars = Nil]
           \/ /\ calls' = [calls EXCEPT ![k] = [c EXCEPT !.pc = "init"]]
              /\ dirs' = [dirs EXCEPT ![workDir].tfvars = Some(calls[k].vars)]
    /\ UNCHANGED <<store, now, creates, reqs, ctlvars>>

\* e.runCommand(workPath, "init", ...), then e.runCommand(workPath, "apply",
\* ...) or e.runCommand(workPath, "destroy", ...): the tool works on the
\* variables file and the state that are in the directory, and fails when
\* it cannot read the variables file
runCommand(k) ==
    /\ calls[k].pc \in {"init", "run"}
    /\ LET workDir == calls[k].workDir
           arg == IF calls[k].pc = "init" THEN "init" ELSE CommandOf(calls[k].op)
           c == [calls[k] EXCEPT !.steps = Append(@, arg)]
       IN  \/ \E stderr \in Stderrs :
                /\ calls' = [calls EXCEPT ![k] =
                      ReturnError([c EXCEPT !.stderr = stderr],
                          Wrap("terraform " \o arg \o " failed",
                               CommandError("exit status 1", stderr)))]
                /\ UNCHANGED dirs
           \/ IF arg = "init"
              THEN /\ calls' = [calls EXCEPT ![k] = [c EXCEPT !.pc = "run"]]
                   /\ UNCHANGED dirs
              ELSE IF arg = "apply"
              THEN /\ dirs[workDir].tfvars # Nil
                   /\ calls' = [calls EXCEPT ![k] =
                          [c EXCEPT !.pc = "done", !.returned = TRUE]]
                   /\ \E shape \in OutputShapes :
                        dirs' = [dirs EXCEPT ![workDir].state =
                                    Some(Outputs(dirs[workDir].tfvars[1], shape))]
              ELSE /\ dirs[workDir].tfvars # Nil
                   /\ calls' = [calls EXCEPT ![k] =
                          [c EXCEPT !.pc = "done", !.returned = TRUE,
                                    !.destroyed = dirs[workDir].state]]
                   /\ dirs' = [dirs EXCEPT ![workDir].state = Nil]
    /\ UNCHANGED <<store, now, creates, reqs, ctlvars>>

ExecNext ==
    \/ Tick
    \/ \E op \in {"Apply", "Destroy"}, module \in Modules, env \in Clusters :
          Call(op, module, env)
    \/ \E k \in 1..Len(calls) : MkdirAll(k)
    \/ \E k \in 1..Len(calls) : WriteFile(k)
    \/ \E k \in 1..Len(calls) : runCommand(k)

ExecSpec == Init /\ [][ExecNext]_vars

(***************************************************************************)
(* Apply called for modules of any name: one name is the beginning of the  *)
(* other, which has a hyphen in it.                                        *)
(***************************************************************************)
AnyModules == {"aws", "aws-eks"}

OutNext ==
    \/ Tick
    \/ \E module \in AnyModules, env \in Clusters : Call("Apply", module, env)
    \/ \E k \in 1..Len(calls) : MkdirAll(k)
    \/ \E k \in 1..Len(calls) : WriteFile(k)
    \/ \E k \in 1..Len(calls) : runCommand(k)

OutSpec == Init /\ [][OutNext]_vars

(***************************************************************************)
(* The tenant controller (multi-tenancy/controller/main.go).  Every 30     *)
(* seconds reconcile reads the declared tenants and processes them in      *)
(* order; processTenant goes through the namespaces of a tenant in order   *)
(* and, for each, through the steps ensureNamespace, ensureResourceQuota,  *)
(* ensureNetworkPolicies, ensureRBAC and ensureServiceMesh.  A step of the *)
(* controller is one of these calls.  Each call of the cluster API made by *)
(* a step can fail: fail is the number, within the step, of the call that  *)
(* fails, 0 when none does.  api lists the write calls of the tick.        *)
(***************************************************************************)
MaxDeclares == 1    \* changes of the declared tenants

apivars == <<store, now, creates, reqs, dirs, calls>>

\* the calls of the cluster API one step can make, and 0
APICalls == 0..10

Key(kind, namespace, name) == <<kind, namespace, name>>

Managed == "managed-by" :> "tenant-controller"

\* the value of a string of digits, Nil when it is not one
Digits == "0123456789"
DigitOf(ch) == CHOOSE d \in 0..9 : SubSeq(Digits, d + 1, d + 1) = ch
IsDigits(s) ==
    /\ Len(s) > 0
    /\ \A i \in 1..Len(s) :
          \E d \in 0..9 : SubSeq(Digits, d + 1, d + 1) = SubSeq(s, i, i)
RECURSIVE Atoi(_)
Atoi(s) ==
    IF Len(s) = 0 THEN 0
    ELSE 10 * Atoi(SubSeq(s, 1, Len(s) - 1)) + DigitOf(SubSeq(s, Len(s), Len(s)))

\* resource.ParseQuantity: a number and a suffix, in canonical form (whole
\* thousandths become units); Nil when the string is no quantity
ParseQuantity(s) ==
    LET n == Len(s)
        last1 == IF n >= 1 THEN SubSeq(s, n, n) ELSE ""
        last2 == IF n >= 2 THEN SubSeq(s, n - 1, n) ELSE ""
    IN  IF last2 \in {"Ki", "Mi", "Gi", "Ti"} /\ IsDigits(SubSeq(s, 1, n - 2))
        THEN Some([value |-> Atoi(SubSeq(s, 1, n - 2)), suffix |-> last2])
        ELSE IF last1 = "m" /\ IsDigits(SubSeq(s, 1, n - 1))
        THEN LET v == Atoi(SubSeq(s, 1, n - 1))
             IN  IF v % 1000 = 0
                 THEN Some([value |-> v \div 1000, suffix |-> ""])
                 ELSE Some([value |-> v, suffix |-> "m"])
        ELSE IF IsDigits(s)
        THEN Some([value |-> Atoi(s), suffix |-> ""])
        ELSE Nil

\* resource.MustParse of a string that is a quantity
MustParse(s) == ParseQuantity(s)[1]

\* fmt.Sprintf("%d", n)
Sprintf(n) == ToString(n)

\* the state of a step: the cluster, the write calls issued, the error the
\* step returns (Nil: none yet), whether it panicked, the calls it has made
Begin == [cluster |-> cluster, api |-> api, err |-> Nil, panic |-> FALSE, k |-> 0]

WriteCall(verb, key, ok) == [verb |-> verb, key |-> key, ok |-> ok]

\* Get(name); when NotFound, Create(obj); an object that exists is left as
\* it is
GetOrCreate(r, key, obj, what, fail) ==
    IF r.err # Nil THEN r
    ELSE IF fail = r.k + 1
    THEN [r EXCEPT !.err = Some("failed to check " \o what), !.k = @ + 1]
    ELSE IF key \in DOMAIN r.cluster
    THEN [r EXCEPT !.k = @ + 1]
    ELSE IF fail = r.k + 2
    THEN [r EXCEPT !.err = Some("failed to create " \o what), !.k = @ + 2,
                   !.api = Append(@, WriteCall("create", key, FALSE))]
    ELSE [r EXCEPT !.cluster = (key :> obj) @@ @, !.k = @ + 2,
                   !.api = Append(@, WriteCall("create", key, TRUE))]

NamespaceLabels(tenant) ==
    ("tenant" :> tenant.Name) @@ ("tenant-id" :> tenant.ID)
    @@ ("owner-id" :> tenant.OwnerID) @@ Managed
    @@ ("cluster-name" :> clusterName)

ensureNamespace(r, name, tenant, fail) ==
    GetOrCreate(r, Key("Namespace", "", name),
                [labels |-> NamespaceLabels(tenant)], "namespace", fail)

\* the Hard list of the quota
QuotaHard(limits) ==
    ("cpu" :> MustParse(limits.CPU))
    @@ ("memory" :> MustParse(limits.Memory))
    @@ ("ephemeral-storage" :> MustParse(limits.Storage))
    @@ ("pods" :> MustParse(Sprintf(limits.Pods)))
    @@ ("services" :> MustParse(Sprintf(limits.Services)))
    @@ ("requests.cpu" :> MustParse(limits.CPU))
    @@ ("requests.memory" :> MustParse(limits.Memory))
    @@ ("limits.cpu" :> MustParse(limits.CPU))
    @@ ("limits.memory" :> MustParse(limits.Memory))

\* resource.MustParse panics on a string that is no quantity
QuotaPanics(limits) ==
    \E s \in {limits.CPU, limits.Memory, limits.Storage} : ParseQuantity(s) = Nil

ensureResourceQuota(r, namespace, limits, fail) ==
    IF QuotaPanics(limits) THEN [r EXCEPT !.panic = TRUE]
    ELSE
    LET key == Key("ResourceQuota", namespace, "tenant-quota")
        quota == [labels |-> Managed, hard |-> QuotaHard(limits)]
    IN  IF key \notin DOMAIN r.cluster
        THEN GetOrCreate(r, key, quota, "resource quota", fail)
        ELSE IF fail = r.k + 1
        THEN [r EXCEPT !.err = Some("failed to check resource quota"), !.k = @ + 1]
        ELSE IF fail = r.k + 2
        THEN [r EXCEPT !.err = Some("failed to update resource quota"),
                       !.k = @ + 2,
                       !.api = Append(@, WriteCall("update", key, FALSE))]
        ELSE [r EXCEPT !.cluster = [@ EXCEPT ![key] = quota], !.k = @ + 2,
                       !.api = Append(@, WriteCall("update", key, TRUE))]

\* a peer of an ingress rule
PodPeer == [PodSelector |-> Some("{}"), IPBlock |-> Nil]
IPPeer(cidr) == [PodSelector |-> Nil, IPBlock |-> Some(cidr)]

Policy(labels, types, ingress) ==
    [labels |-> labels, podSelector |-> "{}", policyTypes |-> types,
     ingress |-> ingress]

CIDRPolicyName(i) == "allow-ingress-cidr-" \o ToString(i)

CIDRPolicy(cidr) ==
    Policy(Managed @@ ("cidr" :> cidr), << >>, <<[From |-> <<IPPeer(cidr)>>]>>)

\* the loop over AllowIngressFromCIDR, from the entry of index i on
RECURSIVE CIDRLoop(_, _, _, _, _)
CIDRLoop(r, namespace, cidrs, i, fail) ==
    IF i >= Len(cidrs) THEN r
    ELSE CIDRLoop(GetOrCreate(r, Key("NetworkPolicy", namespace, CIDRPolicyName(i)),
                              CIDRPolicy(cidrs[i + 1]),
                              "allow ingress CIDR policy", fail),
                  namespace, cidrs, i + 1, fail)

ensureNetworkPolicies(r, namespace, policy, fail) ==
    LET r1 == IF policy.DefaultDenyIngress
              THEN GetOrCreate(r, Key("NetworkPolicy", namespace, "default-deny-ingress"),
                               Policy(Managed, <<"Ingress">>, << >>),
                               "default deny ingress policy", fail)
              ELSE r
        r2 == IF policy.DefaultDenyEgress
              THEN GetOrCreate(r1, Key("NetworkPolicy", namespace, "default-deny-egress"),
                               Policy(Managed, <<"Egress">>, << >>),
                               "default deny egress policy", fail)
              ELSE r1
        r3 == IF policy.AllowIntraNamespace
              THEN GetOrCreate(r2, Key("NetworkPolicy", namespace, "allow-intra-namespace"),
                               Policy(Managed, << >>, <<[From |-> <<PodPeer>>]>>),
                               "allow intra-namespace policy", fail)
              ELSE r2
    IN  CIDRLoop(r3, namespace, policy.AllowIngressFromCIDR, 0, fail)

\* a role binding that is not in the namespace
ensureRBAC_Shared(r, namespace, ownerID, fail) ==
    GetOrCreate(r, Key("RoleBinding", "", "tenant-owner"),
                [labels |-> Managed,
                 subjects |-> <<[Kind |-> "User", Name |-> ownerID]>>,
                 roleRef |-> [Kind |-> "ClusterRole", Name |-> "admin"]],
                "tenant owner role binding", fail)

ensureRBAC(r, namespace, ownerID, fail) ==
    GetOrCreate(r, Key("RoleBinding", namespace, "tenant-owner"),
                [labels |-> Managed,
                 subjects |-> <<[Kind |-> "User", Name |-> ownerID]>>,
                 roleRef |-> [Kind |-> "ClusterRole", Name |-> "admin"]],
                "tenant owner role binding", fail)

\* labels that are the label of the mesh injection alone
MeshLabels_Only(labels) == "istio-injection" :> "enabled"

\* the labels of a namespace after ns.Labels["istio-injection"] = "enabled"
MeshLabels(labels) == ("istio-injection" :> "enabled") @@ labels

ensureServiceMesh(r, namespace, fail) ==
    LET key == Key("Namespace", "", namespace)
    IN  IF fail = r.k + 1 \/ key \notin DOMAIN r.cluster
        THEN [r EXCEPT !.err = Some("failed to get namespace"), !.k = @ + 1]
        ELSE IF fail = r.k + 2
        THEN [r EXCEPT !.err = Some("failed to update namespace for service mesh"),
                       !.k = @ + 2,
                       !.api = Append(@, WriteCall("update", key, FALSE))]
        ELSE [r EXCEPT !.cluster = [@ EXCEPT ![key].labels = MeshLabels(@)],
                       !.k = @ + 2,
                       !.api = Append(@, WriteCall("update", key, TRUE))]

\* the loop of reconcile reaches the tenant of index t: the first step of
\* its first namespace, the next tenant when it has no namespace, the end
\* of the tick after the last tenant
RECURSIVE reconcileLoop(_, _)
reconcileLoop(c, t) ==
    IF t > Len(c.list)
    THEN [c EXCEPT !.state = "idle", !.t = 0, !.n = 0, !.step = 0]
    ELSE IF c.list[t].Namespaces = << >>
    THEN reconcileLoop(c, t + 1)
    ELSE [c EXCEPT !.t = t, !.n = 1, !.step = 1]

\* the step of processTenant after the last step of a namespace
LastStep(tenant) == IF tenant.ServiceMeshEnable THEN 5 ELSE 4

\* processTenant after a step has returned err: an error ends the tenant,
\* reconcile logs it and goes on with the next tenant
processTenant(c, err) ==
    LET tenant == c.list[c.t]
    IN  IF err # Nil
        THEN reconcileLoop([c EXCEPT !.errors = @ \cup {tenant.ID}], c.t + 1)
        ELSE IF c.step < LastStep(tenant)
        THEN [c EXCEPT !.step = @ + 1]
        ELSE IF c.n < Len(tenant.Namespaces)
        THEN [c EXCEPT !.n = @ + 1, !.step = 1]
        ELSE reconcileLoop(c, c.t + 1)

\* a panic of the goroutine of wait.Until is logged and raised again: the
\* process ends
Crashed(c) == [c EXCEPT !.state = "crashed"]

\* the tenant and the namespace the controller is at
CurTenant == ctl.list[ctl.t]
CurNamespace == CurTenant.Namespaces[ctl.n]

At(step) == ctl.state = "running" /\ Steps[ctl.step] = step

\* a step that ends as r and removes the namespaces the tenants of the tick
\* do not declare
Return_Prune(r) ==
    /\ cluster' = [k \in { j \in DOMAIN r.cluster :
                             j[1] = "Namespace" =>
                                \E i \in 1..Len(ctl.list) :
                                   \E n \in 1..Len(ctl.list[i].Namespaces) :
                                      ctl.list[i].Namespaces[n] = j[3] }
                    |-> r.cluster[k]]
    /\ api' = r.api
    /\ ctl' = IF r.panic THEN Crashed(ctl) ELSE processTenant(ctl, r.err)
    /\ UNCHANGED <<apivars, tenants, edits>>

\* a step ends as r
Return(r) ==
    /\ cluster' = r.cluster
    /\ api' = r.api
    /\ ctl' = IF r.panic THEN Crashed(ctl) ELSE processTenant(ctl, r.err)
    /\ UNCHANGED <<apivars, tenants, edits>>

\* the declared tenants change, between two ticks
Declare(list) ==
    /\ ctl.state = "idle"
    /\ edits < MaxDeclares
    /\ list # tenants
    /\ tenants' = list
    /\ edits' = edits + 1
    /\ UNCHANGED <<apivars, cluster, ctl, api>>

\* a namespace that was made by someone else before the first tick
ExternalNamespaces ==
    { [name |-> "team-alpha-dev", labels |-> "team" :> "platform"] }

CreateNamespace(ns) ==
    /\ ctl.state = "idle" /\ ~ctl.ran
    /\ Key("Namespace", "", ns.name) \notin DOMAIN cluster
    /\ cluster' = (Key("Namespace", "", ns.name) :> [labels |-> ns.labels]) @@ cluster
    /\ UNCHANGED <<apivars, tenants, edits, ctl, api>>

\* a tick of wait.Until: reconcile begins with the tenants getTenants returns
reconcile ==
    /\ ctl.state = "idle"
    /\ ctl' = reconcileLoop(
                 [ctl EXCEPT !.state = "running", !.ran = TRUE,
                             !.list = tenants, !.errors = {},
                             !.prev = IF ctl.ran /\ ctl.errors = {}
                                      THEN Some(ctl.list) ELSE Nil], 1)
    /\ api' = << >>
    /\ UNCHANGED <<apivars, cluster, tenants, edits>>

ProcessNamespace ==
    /\ At("ensureNamespace")
    /\ \E fail \in APICalls :
          LET r == ensureNamespace(Begin, CurNamespace, CurTenant, fail)
          IN  (fail = 0 \/ r.err # Nil) /\ Return(r)

ProcessResourceQuota ==
    /\ At("ensureResourceQuota")
    /\ \E fail \in APICalls :
          LET r == ensureResourceQuota(Begin, CurNamespace,
                                       CurTenant.ResourceLimits, fail)
          IN  (fail = 0 \/ r.err # Nil) /\ Return(r)

ProcessNetworkPolicies ==
    /\ At("ensureNetworkPolicies")
    /\ \E fail \in APICalls :
          LET r == ensureNetworkPolicies(Begin, CurNamespace,
                                         CurTenant.NetworkPolicy, fail)
          IN  (fail = 0 \/ r.err # Nil) /\ Return(r)

ProcessRBAC ==
    /\ At("ensureRBAC")
    /\ \E fail \in APICalls :
          LET r == ensureRBAC(Begin, CurNamespace, CurTenant.OwnerID, fail)
          IN  (fail = 0 \/ r.err # Nil) /\ Return(r)

ProcessServiceMesh ==
    /\ At("ensureServiceMesh")
    /\ \E fail \in APICalls :
          LET r == ensureServiceMesh(Begin, CurNamespace, fail)
          IN  (fail = 0 \/ r.err # Nil) /\ Return(r)

CtrlNext ==
    \/ \E list \in Declared : Declare(list)
    \/ \E ns \in ExternalNamespaces : CreateNamespace(ns)
    \/ reconcile
    \/ ProcessNamespace
    \/ ProcessResourceQuota
    \/ ProcessNetworkPolicies
    \/ ProcessRBAC
    \/ ProcessServiceMesh

CtrlSpec == Init /\ [][CtrlNext]_vars

(***************************************************************************)
(* The controller as main runs it: Run starts the loop of wait.Until in a  *)
(* goroutine and waits for the stop channel.  main makes the channel,      *)
(* installs no signal handler and never closes the channel: Run does not   *)
(* return, the loop ticks for ever, and a signal that asks the process to  *)
(* stop (SIGINT, SIGTERM) ends it at once, by the default of the runtime,  *)
(* wherever the loop stands.                                               *)
(***************************************************************************)
\* the step the controller is at, when its call number fail fails
StepResult(fail) ==
    IF Steps[ctl.step] = "ensureNamespace"
    THEN ensureNamespace(Begin, CurNamespace, CurTenant, fail)
    ELSE IF Steps[ctl.step] = "ensureResourceQuota"
    THEN ensureResourceQuota(Begin, CurNamespace, CurTenant.ResourceLimits, fail)
    ELSE IF Steps[ctl.step] = "ensureNetworkPolicies"
    THEN ensureNetworkPolicies(Begin, CurNamespace, CurTenant.NetworkPolicy, fail)
    ELSE IF Steps[ctl.step] = "ensureRBAC"
    THEN ensureRBAC(Begin, CurNamespace, CurTenant.OwnerID, fail)
    ELSE ensureServiceMesh(Begin, CurNamespace, fail)

\* the write calls of a step that were answered
Answered(calls_) ==
    IF Len(calls_) > Len(api) /\ ~calls_[Len(calls_)].ok
    THEN SubSeq(calls_, 1, Len(calls_) - 1)
    ELSE calls_

\* the process receives the signal and ends: between two ticks, between two
\* steps of a tick, or inside a step, after any number of its calls of the
\* cluster API
Signal ==
    /\ ctl.state \in {"idle", "running"}
    /\ ctl' = [ctl EXCEPT !.state = "killed"]
    /\ \/ UNCHANGED <<cluster, api>>
       \/ /\ ctl.state = "running"
          /\ \E fail \in APICalls \ {0} :
                LET r == StepResult(fail)
                IN  /\ r.err # Nil
                    /\ cluster' = r.cluster
                    /\ api' = Answered(r.api)
    /\ UNCHANGED <<apivars, tenants, edits>>

RunNext ==
    \/ Signal
    \/ reconcile
    \/ ProcessNamespace
    \/ ProcessResourceQuota
    \/ ProcessNetworkPolicies
    \/ ProcessRBAC
    \/ ProcessServiceMesh

RunSpec == Init /\ [][RunNext]_vars

(***************************************************************************)
(* Properties of the lifecycle manager.                                    *)
(***************************************************************************)
\* C1: a valid creation request that the store accepts is answered 201; the
\* record the handler returns is the record it persists, its ID is the ID of
\* no record that was in the store, its Status is CREATING and its
\* ClusterName is "env-" followed by the first 8 characters of the ID,
\* whatever the other fields of the request and the time of the request.
C1_CreateContract ==
    /\ \A req \in CreateRequests :
          ValidRequest(req) => CreateEnvironmentAnswer(req, TRUE) = 201
    /\ \A req \in CreateRequests, envID \in UUIDs, t \in 1..MaxClock,
           name \in {"dev-env", "prod"}, userID \in {"alice", "bob"} :
          NewEnvironment([req EXCEPT !.Name = name, !.UserID = userID],
                         envID, t).ClusterName
            = "env-" \o SubSeq(envID, 1, 8)
    /\ [][ Len(creates') > Len(creates) =>
             LET e == creates'[Len(creates')].env
             IN  /\ e.ID \notin DOMAIN store
                 /\ e.ID \in DOMAIN store'
                 /\ UnmarshalMap(store'[e.ID]) = e
                 /\ e.Status = "CREATING"
                 /\ e.ClusterName = "env-" \o SubSeq(e.ID, 1, 8)
                 /\ Len(e.ClusterName) = 12 ]_vars

\* C1, its case: a record was created while another was in the store
C1_Created ==
    \E i \in 1..Len(creates) :
        /\ i > 1
        /\ creates[i].pc = "start"
        /\ creates[i].env.ID \in DOMAIN store
        /\ store[creates[i].env.ID].Status = "CREATING"
        /\ store[creates[i].env.ID].ClusterName \in {"env-aaaaaaaa", "env-bbbbbbbb"}

\* C2: a record whose DeletedAt is set is in no answer of ListEnvironments,
\* whatever the filter, and GetEnvironment and GetEnvironmentStatus on its ID
\* answer 404 when the store answers, and never answer with the record.
C2_DeletedIsAbsent ==
    \A id \in DOMAIN store :
        UnmarshalMap(store[id]).DeletedAt # Nil =>
            /\ GetEnvironmentResponse(store, id, TRUE).code = 404
            /\ GetEnvironmentStatusResponse(store, id, TRUE).code = 404
            /\ GetEnvironmentResponse(store, id, FALSE).code # 200
            /\ GetEnvironmentStatusResponse(store, id, FALSE).code # 200
            /\ \A userID \in {"", "alice", "bob"},
                  status \in {"", "CREATING", "PROVISIONING", "ACTIVE", "UPDATING",
                              "ERROR", "DELETING", "DELETED"} :
                 \A e \in ListEnvironmentsResponse(store, userID, status, TRUE).body :
                     e.ID # id

\* C2, its case: the store holds a record that is marked as deleted
C2_DeletedRecord ==
    \E id \in DOMAIN store :
        /\ UnmarshalMap(store[id]).DeletedAt # Nil
        /\ store[id].Status \in {"DELETING", "DELETED"}

\* C3: the outputs a create workflow has obtained from GetOutputs are the
\* outputs of its own Apply, under every interleaving with the Apply and
\* GetOutputs of another create workflow of the same module.
C3_OwnOutputs ==
    \A i \in 1..Len(creates) :
        (/\ creates[i].pc \in {"set_active", "set_error"}
         /\ \E k \in 1..Len(creates[i].trace) : creates[i].trace[k] = "GetOutputs")
        => creates[i].outputs = creates[i].applied

\* C4: for every environment ID at most one workflow (the goroutine of a
\* Create, of an Update or of a Delete) is in flight.
C4_OneWorkflowPerID ==
    \A id \in UUIDs :
        Cardinality({ i \in 1..Len(creates) :
                        creates[i].pc # "done" /\ creates[i].env.ID = id })
        + Cardinality({ r \in 1..Len(reqs) :
                          reqs[r].pc = "go" /\ reqs[r].env.ID = id }) <= 1

\* C5: every change of a record's persisted Status follows an edge of the
\* lifecycle: CREATING->PROVISIONING, PROVISIONING->ACTIVE, ACTIVE->UPDATING,
\* UPDATING->ACTIVE, any->ERROR, ACTIVE->DELETING, ERROR->DELETING,
\* ERROR->UPDATING, DELETING->DELETED.
C5_StatusEdges ==
    [][ \A id \in DOMAIN store :
          store'[id].Status # store[id].Status =>
              \/ store'[id].Status = "ERROR"
              \/ <<store[id].Status, store'[id].Status>> \in
                    { <<"CREATING", "PROVISIONING">>, <<"PROVISIONING", "ACTIVE">>,
                      <<"ACTIVE", "UPDATING">>, <<"UPDATING", "ACTIVE">>,
                      <<"ACTIVE", "DELETING">>, <<"ERROR", "DELETING">>,
                      <<"ERROR", "UPDATING">>, <<"DELETING", "DELETED">> } ]_vars

\* C6: once the persisted Status of a record is DELETED, no step changes it.
C6_DeletedIsTerminal ==
    [][ \A id \in DOMAIN store :
          store[id].Status = "DELETED" => store'[id].Status = "DELETED" ]_vars

\* C7: when the credential or the console URL of a record was written after
\* an Update or Delete request read the record, the PutItem of that request
\* leaves the written values in the store.
C7_NoLostUpdate ==
    [][ \A r \in 1..Len(reqs) :
          (reqs[r].pc = "put" /\ reqs'[r].pc = "go") =>
              LET id == reqs[r].env.ID
              IN  /\ store[id].KubeConfig # reqs[r].env.KubeConfig
                       => store'[id].KubeConfig = store[id].KubeConfig
                  /\ store[id].ConsoleURL # reqs[r].env.ConsoleURL
                       => store'[id].ConsoleURL = store[id].ConsoleURL ]_vars

\* C8: the create workflow writes ACTIVE only after Apply, GetOutputs, the
\* extraction of the credential and the cluster bootstrap succeeded, in this
\* order; the same write stores the credential, and the credential is not
\* empty.
C8_ActiveAfterSuccess ==
    [][ \A i \in 1..Len(creates) :
          (creates[i].pc = "set_active" /\ creates'[i].pc = "done" /\ store' # store) =>
              LET id == creates[i].env.ID
              IN  /\ creates[i].trace = <<"updateEnvironmentStatus", "Apply",
                                         "GetOutputs", "kubeconfig", "configure">>
                  /\ store'[id].Status = "ACTIVE"
                  /\ store'[id].KubeConfig = creates[i].outputs.kubeconfig[1]
                  /\ store'[id].KubeConfig # "" ]_vars

\* C9: a create workflow in which a step failed returns with Status ERROR
\* and a non-empty StatusMessage persisted for its record.
C9_FailureIsPersisted ==
    [][ \A i \in 1..Len(creates) :
          (creates[i].pc = "set_error" /\ creates'[i].pc = "done") =>
              LET id == creates[i].env.ID
              IN  /\ store'[id].Status = "ERROR"
                  /\ store'[id].StatusMessage # "" ]_vars

\* C10: the goroutine of an Update or of a Delete writes its success status
\* (ACTIVE, DELETED) only after it has called the executor.
C10_SuccessAfterOrchestrator ==
    [][ \A r \in 1..Len(reqs) :
          (/\ reqs[r].pc = "go" /\ reqs'[r].pc = "done"
           /\ store' # store
           /\ store'[reqs[r].env.ID].Status \in {"ACTIVE", "DELETED"})
          => reqs[r].trace # << >> ]_vars

\* C11: `new' is the partial merge of the patch p into the record `old':
\* a field present in p has the value of p, a field absent from p and the
\* fields ID, Name, TemplateID, UserID, ClusterName, CreatedAt, KubeConfig,
\* ConsoleURL and DeletedAt have the value of `old', and Status is UPDATING.
C11_Merged(old, p, new) ==
    /\ new.Description = IF p.Description # Nil THEN p.Description[1]
                         ELSE old.Description
    /\ new.ResourceLimits = IF p.ResourceLimits # Nil THEN p.ResourceLimits[1]
                            ELSE old.ResourceLimits
    /\ \A f \in {"NetworkPolicy", "ServiceMesh", "Monitoring", "GitOps",
                 "Addons", "Tags"} :
          new[f] = IF p[f] # Nil THEN p[f] ELSE old[f]
    /\ \A f \in {"ID", "Name", "TemplateID", "UserID", "ClusterName",
                 "CreatedAt", "KubeConfig", "ConsoleURL", "DeletedAt"} :
          new[f] = old[f]
    /\ new.Status = "UPDATING"

\* C11: UpdateEnvironment is a partial merge, for every record and every
\* patch (every set of fields present); the record an accepted Update keeps
\* is the merge of its patch into the record it read, and its PutItem
\* persists exactly that record, which it returns with 200.
C11_PartialMerge ==
    /\ \A present \in SUBSET PatchFields, id \in UUIDs, t \in 1..MaxClock,
          status \in {"CREATING", "ACTIVE", "ERROR"} :
          LET p == [f \in PatchFields |->
                      IF f \notin present THEN Nil
                      ELSE IF f = "ResourceLimits" THEN Some(Limits2)
                      ELSE IF f = "Addons" THEN Some(<<"addon2">>)
                      ELSE Some(f \o "2")]
              req == CHOOSE r \in CreateRequests : ValidRequest(r)
              old == [NewEnvironment(req, id, 1) EXCEPT
                         !.Status = status, !.KubeConfig = "kubeconfig1",
                         !.ConsoleURL = "https://console/1"]
          IN  C11_Merged(old, p, ApplyPatch(old, p, t))
    /\ [][ /\ (/\ Len(reqs') > Len(reqs)
               /\ reqs'[Len(reqs')].kind = "Update") =>
                  LET s == reqs'[Len(reqs')]
                  IN  /\ s.env.ID \in DOMAIN store
                      /\ C11_Merged(UnmarshalMap(store[s.env.ID]), s.patch, s.env)
           /\ \A r \in 1..Len(reqs) :
                (/\ reqs[r].kind = "Update"
                 /\ reqs[r].pc = "put" /\ reqs'[r].pc = "go") =>
                    /\ UnmarshalMap(store'[reqs[r].env.ID]) = reqs[r].env
                    /\ reqs'[r].env = reqs[r].env
                    /\ reqs'[r].code = 200 ]_vars

\* C11, its case: an Update that changed limits and tags was persisted
C11_Updated ==
    \E r \in 1..Len(reqs) :
        /\ reqs[r].kind = "Update" /\ reqs[r].pc = "go" /\ reqs[r].code = 200
        /\ reqs[r].patch.Tags # Nil
        /\ store[reqs[r].env.ID].Status = "UPDATING"
        /\ store[reqs[r].env.ID].ResourceLimits = Limits2
        /\ store[reqs[r].env.ID].Description = "d1"
        /\ store[reqs[r].env.ID].ServiceMesh = ValueAV("mesh1")

\* C12: an Update (with a valid patch) or a Delete on an ID that is unknown
\* or whose record has DeletedAt set is answered 404 when the store answers;
\* a request that goes on to its write, and so to its workflow, read a
\* record that exists and has no DeletedAt, and the step that accepts it
\* leaves the store as it is.
C12_AbsentIsRejected ==
    /\ [](\A id \in UUIDs :
            (id \notin DOMAIN store \/ UnmarshalMap(store[id]).DeletedAt # Nil) =>
                /\ DeleteEnvironmentAnswer(store, id, TRUE) = 404
                /\ \A p \in Patches :
                      ValidPatch(p) => UpdateEnvironmentAnswer(store, id, p, TRUE) = 404)
    /\ [][ Len(reqs') > Len(reqs) =>
             LET id == reqs'[Len(reqs')].env.ID
             IN  /\ id \in DOMAIN store
                 /\ UnmarshalMap(store[id]).DeletedAt = Nil
                 /\ store' = store ]_vars

\* C12, its case: a Delete has completed and its record is DELETED, so that
\* a second Delete of the ID is answered 404
C12_DeletedTwice ==
    \E id \in DOMAIN store :
        /\ store[id].Status = "DELETED"
        /\ UnmarshalMap(store[id]).DeletedAt # Nil
        /\ \E r \in 1..Len(reqs) :
              reqs[r].kind = "Delete" /\ reqs[r].pc = "done" /\ reqs[r].code = 204
        /\ DeleteEnvironmentAnswer(store, id, TRUE) = 404

\* C13: in every state of the store a record has Status DELETING or DELETED
\* only if its DeletedAt is set, and a record whose DeletedAt is set has
\* Status DELETING, DELETED or ERROR.
C13_DeletedAtAndStatus ==
    \A id \in DOMAIN store :
        /\ store[id].Status \in {"DELETING", "DELETED"}
              => UnmarshalMap(store[id]).DeletedAt # Nil
        /\ UnmarshalMap(store[id]).DeletedAt # Nil
              => store[id].Status \in {"DELETING", "DELETED", "ERROR"}

\* C14: the view GetEnvironmentStatus returns carries the persisted Status
\* and StatusMessage of the record it read, as does the record GetEnvironment
\* returns; and every change of the store is a step of an accepted Create,
\* Update or Delete or of one of their goroutines: no read changes a record.
C14_ReadsOnlyRead ==
    /\ [](\A id \in DOMAIN store :
            LET view == GetEnvironmentStatusResponse(store, id, TRUE)
                got == GetEnvironmentResponse(store, id, TRUE)
            IN  /\ view.code = 200 =>
                      /\ view.body.Status = store[id].Status
                      /\ view.body.StatusMessage = store[id].StatusMessage
                /\ got.code = 200 =>
                      /\ got.body.Status = store[id].Status
                      /\ got.body.StatusMessage = store[id].StatusMessage
                /\ UnmarshalMap(store[id]).DeletedAt = Nil =>
                      view.code = 200 /\ got.code = 200)
    /\ [][ store' # store => (creates' # creates \/ reqs' # reqs) ]_vars

\* C14, its case: the status of a record in ERROR is read
C14_StatusRead ==
    \E id \in DOMAIN store :
        /\ store[id].Status = "ERROR"
        /\ GetEnvironmentStatusResponse(store, id, TRUE).code = 200
        /\ GetEnvironmentStatusResponse(store, id, TRUE).body.Status = "ERROR"
        /\ GetEnvironmentStatusResponse(store, id, TRUE).body.StatusMessage # ""

\* C15: a Create whose body fails validation and an Update whose patch fails
\* validation are answered 400, whatever the store holds or answers; every
\* request that reaches a store write or starts a goroutine was valid (a
\* name of 3 to 63 characters, at most 10 nodes).
C15_InvalidIsRejected ==
    /\ \A req \in CreateRequests, putOk \in BOOLEAN :
          ~ValidRequest(req) => CreateEnvironmentAnswer(req, putOk) = 400
    /\ [](\A id \in UUIDs, p \in Patches, getOk \in BOOLEAN :
            ~ValidPatch(p) => UpdateEnvironmentAnswer(store, id, p, getOk) = 400)
    /\ [][ /\ Len(creates') > Len(creates) =>
                LET e == creates'[Len(creates')].env
                IN  /\ Len(e.Name) >= 3 /\ Len(e.Name) <= 63
                    /\ e.ResourceLimits.MaxNodeCount \in 1..10
           /\ (Len(reqs') > Len(reqs) /\ reqs'[Len(reqs')].kind = "Update") =>
                LET s == reqs'[Len(reqs')]
                IN  /\ ValidPatch(s.patch)
                    /\ s.env.ResourceLimits.MaxNodeCount \in 1..10 ]_vars

\* C15, its case: a record that an Update with a valid patch would change,
\* and a patch that fails validation
C15_InvalidPatch ==
    \E id \in DOMAIN store, p \in Patches :
        /\ LoadAnswer(store, id, TRUE) = 0
        /\ ~ValidPatch(p)
        /\ UpdateEnvironmentAnswer(store, id, p, TRUE) = 400

\* C16: the ID, the ClusterName and the CreatedAt of a record are changed by
\* no step; the ID is the key of the record and the ClusterName the one
\* derived from it.
C16_IdentityIsFixed ==
    /\ [](\A id \in DOMAIN store :
            /\ store[id].ID = id
            /\ store[id].ClusterName = "env-" \o SubSeq(id, 1, 8))
    /\ [][ \A id \in DOMAIN store :
             /\ store'[id].ID = store[id].ID
             /\ store'[id].ClusterName = store[id].ClusterName
             /\ store'[id].CreatedAt = store[id].CreatedAt ]_vars

\* C16, its case: a record was rewritten by a Delete after the second in
\* which it was created
C16_Rewritten ==
    \E id \in DOMAIN store :
        /\ store[id].Status \in {"DELETING", "DELETED"}
        /\ store[id].UpdatedAt > store[id].CreatedAt

\* C17: when the store answers, ListEnvironments returns exactly the records
\* that have no DeletedAt and that match the owner filter, when one is given,
\* and the status filter, when one is given.
C17_ListIsExact ==
    \A userID \in {"", "alice", "bob"},
       status \in {"", "CREATING", "PROVISIONING", "ACTIVE", "UPDATING",
                   "ERROR", "DELETING", "DELETED"} :
        ListEnvironmentsResponse(store, userID, status, TRUE).body
          = { UnmarshalMap(store[id]) :
                id \in { j \in DOMAIN store :
                           /\ UnmarshalMap(store[j]).DeletedAt = Nil
                           /\ userID # "" => store[j].UserID = userID
                           /\ status # "" => store[j].Status = status } }

\* C18: any two calls of the executor made for different environments have
\* different working directories.
C18_OwnDirectory ==
    \A j, k \in 1..Len(calls) :
        calls[j].env # calls[k].env => calls[j].workDir # calls[k].workDir

\* C19: a Destroy for an environment has the working directory of an Apply
\* of that environment (and module) that returned nil.
C19_DestroyInApplyDirectory ==
    \A j \in 1..Len(calls) :
        calls[j].op = "Destroy" =>
            \E k \in 1..Len(calls) :
                /\ calls[k].op = "Apply" /\ calls[k].env = calls[j].env
                /\ calls[k].module = calls[j].module
                /\ calls[k].returned /\ calls[k].err = Nil
                /\ calls[k].workDir = calls[j].workDir

\* C20: the steps a call of Apply (of Destroy) has run are a prefix of: the
\* write of the variables file, init, apply (destroy), so each is run at most
\* once and in this order; a call returns nil only when it has run all
\* three; a call that returns an error has run no step after the failing
\* one and runs none later; the error of a failing init, apply or destroy
\* names the command and carries what the command wrote to its standard error.
C20_StepsInOrder ==
    /\ [](\A k \in 1..Len(calls) :
            LET c == calls[k]
                all == <<"write", "init", CommandOf(c.op)>>
            IN  /\ Len(c.steps) <= 3
                /\ c.steps = SubSeq(all, 1, Len(c.steps))
                /\ ~c.returned => c.err = Nil
                /\ (c.returned /\ c.err = Nil) => c.steps = all
                /\ (c.returned /\ c.err # Nil /\ Len(c.steps) >= 2) =>
                      /\ c.err[1].msg = "terraform " \o c.steps[Len(c.steps)] \o " failed"
                      /\ c.err[1].cause.stderr = c.stderr)
    /\ [][ \A k \in 1..Len(calls) :
             /\ calls[k].returned => calls'[k] = calls[k]
             /\ Len(calls'[k].steps) <= Len(calls[k].steps) + 1 ]_vars

\* C20, its case: an Apply whose apply step failed with a message on its
\* standard error has returned
C20_ApplyFailed ==
    \E k \in 1..Len(calls) :
        /\ calls[k].returned /\ calls[k].err # Nil
        /\ calls[k].steps = <<"write", "init", "apply">>
        /\ calls[k].stderr # ""

(***************************************************************************)
(* Properties of the tenant controller.                                    *)
(***************************************************************************)
\* a pass of the controller has ended and no tenant of it failed
PassSucceeded == ctl.state = "idle" /\ ctl.ran /\ ctl.errors = {}

\* C21: a pass that succeeds right after a pass that succeeded over the same
\* declared tenants, the cluster not having been changed by anyone else in
\* between, issues no create and no update call, whatever the network-policy
\* flags and ServiceMeshEnable of the tenants.
C21_SecondPassIsSilent ==
    (PassSucceeded /\ ctl.prev = Some(ctl.list)) => api = << >>

\* C22: a step that fails while a tenant is processed, by an error of the
\* cluster API or by a declared quantity that cannot be parsed, does not end
\* the controller, so that later ticks run, and when the tenant is not the
\* last of the tick the controller goes on with the next tenant.
C22_TenantFailureIsLocal ==
    [][ (ctl.state = "running"
         /\ (ctl'.errors # ctl.errors \/ ctl'.state = "crashed")) =>
            /\ ctl'.state # "crashed"
            /\ ctl.t < Len(ctl.list) =>
                  (ctl'.state = "running" /\ ctl'.t = ctl.t + 1) ]_vars

\* C23: a step that returns an error at a namespace that is not the last of
\* its tenant is followed, in the same tick, by the processing of the next
\* namespace of the tenant.
C23_NamespaceFailureIsLocal ==
    [][ (ctl.state = "running" /\ ctl'.state # "crashed"
         /\ ctl'.errors # ctl.errors
         /\ ctl.n < Len(ctl.list[ctl.t].Namespaces)) =>
            (ctl'.state = "running" /\ ctl'.t = ctl.t /\ ctl'.n = ctl.n + 1) ]_vars

\* the objects the controller has created in this tick
Created ==
    { api[i].key : i \in { j \in 1..Len(api) : api[j].verb = "create" /\ api[j].ok } }

\* the keys of the objects of a kind, and of those of a kind and name
KeysOf(kind) == { k \in DOMAIN cluster : k[1] = kind }
KeysNamed(kind, name) == { k \in KeysOf(kind) : k[3] = name }

\* the elements of a list
Range(seq) == { seq[i] : i \in 1..Len(seq) }

\* C24: after a pass without failure over one tenant with n declared
\* namespaces and DefaultDenyIngress, on a cluster that was empty when the
\* pass began, the cluster has exactly the n declared namespaces, and in each
\* of them one quota "tenant-quota", one policy "default-deny-ingress" and
\* one role binding of the owner: n objects of each.
C24_OnePassObjects ==
    (/\ PassSucceeded
     /\ Len(ctl.list) = 1
     /\ ctl.list[1].NetworkPolicy.DefaultDenyIngress
     /\ DOMAIN cluster \subseteq Created) =>
        LET t == ctl.list[1]
            n == Len(t.Namespaces)
        IN  /\ { k[3] : k \in KeysOf("Namespace") } = Range(t.Namespaces)
            /\ Cardinality(KeysOf("Namespace")) = n
            /\ \A ns \in Range(t.Namespaces) :
                  /\ Key("ResourceQuota", ns, "tenant-quota") \in DOMAIN cluster
                  /\ Key("NetworkPolicy", ns, "default-deny-ingress") \in DOMAIN cluster
                  /\ Key("RoleBinding", ns, "tenant-owner") \in DOMAIN cluster
                  /\ cluster[Key("RoleBinding", ns, "tenant-owner")].subjects
                       = <<[Kind |-> "User", Name |-> t.OwnerID]>>
            /\ Cardinality(KeysOf("ResourceQuota")) = n
            /\ Cardinality(KeysNamed("NetworkPolicy", "default-deny-ingress")) = n
            /\ Cardinality(KeysOf("RoleBinding")) = n

\* C24, its case: the pass over the three namespaces of a tenant with
\* DefaultDenyIngress has ended without failure on a cluster that was empty
C24_ThreeNamespaces ==
    /\ PassSucceeded
    /\ Len(ctl.list) = 1
    /\ ctl.list[1].NetworkPolicy.DefaultDenyIngress
    /\ Len(ctl.list[1].Namespaces) = 3
    /\ DOMAIN cluster \subseteq Created
    /\ Cardinality(KeysOf("RoleBinding")) = 3

\* C25: after a pass without failure, no declared namespace holds a policy
\* made for a CIDR that is not in the tenant's AllowIngressFromCIDR any
\* more: a policy made earlier for a removed entry is gone.
C25_RemovedCIDRHasNoPolicy ==
    PassSucceeded =>
        \A i \in 1..Len(ctl.list) :
            \A k \in KeysOf("NetworkPolicy") :
                (k[2] \in Range(ctl.list[i].Namespaces)
                 /\ "cidr" \in DOMAIN cluster[k].labels) =>
                    cluster[k].labels["cidr"]
                      \in Range(ctl.list[i].NetworkPolicy.AllowIngressFromCIDR)

\* the cluster after a pass without failure over the tenants of list from
\* the namespace n of the tenant t on, begun on the cluster cl
RECURSIVE C26_Pass(_, _, _, _)
C26_Pass(cl, list, t, n) ==
    IF t > Len(list) THEN cl
    ELSE IF n > Len(list[t].Namespaces) THEN C26_Pass(cl, list, t + 1, 1)
    ELSE LET tenant == list[t]
             ns == tenant.Namespaces[n]
             r0 == [cluster |-> cl, api |-> << >>, err |-> Nil,
                    panic |-> FALSE, k |-> 0]
             r1 == ensureNamespace(r0, ns, tenant, 0)
             r2 == ensureResourceQuota(r1, ns, tenant.ResourceLimits, 0)
             r3 == ensureNetworkPolicies(r2, ns, tenant.NetworkPolicy, 0)
             r4 == ensureRBAC(r3, ns, tenant.OwnerID, 0)
             r5 == IF tenant.ServiceMeshEnable
                   THEN ensureServiceMesh(r4, ns, 0) ELSE r4
         IN  C26_Pass(r5.cluster, list, t, n + 1)

\* the managed objects of the namespaces declared in list: the quotas, the
\* network policies and the role bindings in them, and which of them has
\* the label of the mesh injection
C26_ManagedObjects(cl, list) ==
    LET declared == UNION { Range(list[i].Namespaces) : i \in 1..Len(list) }
        keys == { k \in DOMAIN cl :
                    /\ k[1] \in {"ResourceQuota", "NetworkPolicy", "RoleBinding"}
                    /\ k[2] \in declared }
    IN  [objects |-> { <<k, cl[k]>> : k \in keys },
         mesh |-> { ns \in declared :
                      /\ Key("Namespace", "", ns) \in DOMAIN cl
                      /\ "istio-injection"
                           \in DOMAIN cl[Key("Namespace", "", ns)].labels }]

\* C26: the managed objects after a pass without failure are those the
\* declared tenants of the pass alone determine: the same as after a pass
\* over the same tenants on an empty cluster, whatever was declared before.
C26_HistoryIndependent ==
    PassSucceeded =>
        C26_ManagedObjects(cluster, ctl.list)
          = C26_ManagedObjects(C26_Pass(<< >>, ctl.list, 1, 1), ctl.list)

\* C27: after a pass without failure the quota "tenant-quota" of every
\* declared namespace has, among its hard limits, each limit the tenant
\* declares, with the declared value: cpu, memory, storage, the numbers of
\* pods and of services, and the number of endpoints.
C27_QuotaCarriesEveryLimit ==
    PassSucceeded =>
        \A i \in 1..Len(ctl.list) :
            \A ns \in Range(ctl.list[i].Namespaces) :
                LET limits == ctl.list[i].ResourceLimits
                    key == Key("ResourceQuota", ns, "tenant-quota")
                    hard == cluster[key].hard
                    Has(name, q) == name \in DOMAIN hard /\ hard[name] = q
                IN  /\ key \in DOMAIN cluster
                    /\ Has("cpu", MustParse(limits.CPU))
                    /\ Has("memory", MustParse(limits.Memory))
                    /\ Has("ephemeral-storage", MustParse(limits.Storage))
                    /\ Has("pods", MustParse(Sprintf(limits.Pods)))
                    /\ Has("services", MustParse(Sprintf(limits.Services)))
                    /\ \E name \in {"endpoints", "count/endpoints"} :
                          Has(name, MustParse(Sprintf(limits.Endpoints)))

\* the namespaces the tenants of list declare
DeclaredNamespaces(list) == UNION { Range(list[i].Namespaces) : i \in 1..Len(list) }

\* C28: the controller issues create and update calls only, never a delete,
\* and a namespace that exists before a step of the controller exists after
\* it: every namespace there was before a tick is there after it, also one
\* that is no longer declared.
C28_NamespacesAreKept ==
    /\ [](\A i \in 1..Len(api) : api[i].verb \in {"create", "update"})
    /\ [][ \A k \in DOMAIN cluster :
              k[1] = "Namespace" => k \in DOMAIN cluster' ]_vars

\* C28, its case: a pass without failure has ended and the cluster has a
\* namespace, made by an earlier pass, that the tenants of the pass do not
\* declare
C28_RemovedFromList ==
    /\ PassSucceeded
    /\ \E k \in KeysOf("Namespace") :
          /\ k[3] \notin DeclaredNamespaces(ctl.list)
          /\ "managed-by" \in DOMAIN cluster[k].labels

\* C29: after a pass without failure every declared namespace has the labels
\* tenant, tenant-id, owner-id and managed-by of its tenant, whether the pass
\* created the namespace or found it.
C29_NamespaceLabels ==
    PassSucceeded =>
        \A i \in 1..Len(ctl.list) :
            \A ns \in Range(ctl.list[i].Namespaces) :
                LET t == ctl.list[i]
                    key == Key("Namespace", "", ns)
                    labels == cluster[key].labels
                    Has(name, v) == name \in DOMAIN labels /\ labels[name] = v
                IN  /\ key \in DOMAIN cluster
                    /\ Has("tenant", t.Name)
                    /\ Has("tenant-id", t.ID)
                    /\ Has("owner-id", t.OwnerID)
                    /\ Has("managed-by", "tenant-controller")

\* C30: after a pass without failure every namespace of a tenant with
\* ServiceMeshEnable has the label istio-injection=enabled; the step that
\* sets it leaves every other label of the namespace as it was and adds no
\* other label, and on a namespace that has the label already it leaves the
\* labels as they are.
C30_MeshLabel ==
    /\ [](PassSucceeded =>
            \A i \in 1..Len(ctl.list) :
                ctl.list[i].ServiceMeshEnable =>
                    \A ns \in Range(ctl.list[i].Namespaces) :
                        LET labels == cluster[Key("Namespace", "", ns)].labels
                        IN  /\ "istio-injection" \in DOMAIN labels
                            /\ labels["istio-injection"] = "enabled")
    /\ [][ \A k \in DOMAIN cluster :
              k[1] = "Namespace" =>
                 LET old == cluster[k].labels
                     new == cluster'[k].labels
                     others == DOMAIN old \ {"istio-injection"}
                 IN  /\ DOMAIN new \ {"istio-injection"} = others
                     /\ \A l \in others : new[l] = old[l]
                     /\ ("istio-injection" \in DOMAIN old
                         /\ old["istio-injection"] = "enabled") => new = old ]_vars

\* C30, its case: the step has set the label on a namespace that had a label
\* of its own, and a second pass has set it again
C30_SetTwice ==
    /\ PassSucceeded
    /\ ctl.prev = Some(ctl.list)
    /\ ctl.list[1].ServiceMeshEnable
    /\ \E i \in 1..Len(api) :
          api[i] = WriteCall("update", Key("Namespace", "", "team-alpha-dev"), TRUE)
    /\ LET labels == cluster[Key("Namespace", "", "team-alpha-dev")].labels
       IN  /\ "team" \in DOMAIN labels
           /\ labels["istio-injection"] = "enabled"

\* C31: once the stop signal is given no tick begins, and the process ends
\* only when no tick is in flight: a tick in flight when the signal arrives
\* runs to its end first.
C31_StopWaitsForTick ==
    /\ [][ ctl.state = "killed" => ctl'.state # "running" ]_vars
    /\ [][ (ctl.state # "killed" /\ ctl'.state = "killed") =>
              ctl.state = "idle" ]_vars

(***************************************************************************)
(* Further properties of the lifecycle manager and of the executor.        *)
(***************************************************************************)
\* C32: once a write to the store has set DeletedAt on a record, no later
\* write leaves the record without DeletedAt, also not the PutItem of an
\* Update request that read the record before the Delete wrote it.
C32_DeletedAtStays ==
    [][ \A id \in DOMAIN store :
          UnmarshalMap(store[id]).DeletedAt # Nil =>
              UnmarshalMap(store'[id]).DeletedAt # Nil ]_vars

\* C33: in every state of the store a record whose Status is ACTIVE has a
\* credential that is not empty.
C33_ActiveHasCredential ==
    \A id \in DOMAIN store :
        store[id].Status = "ACTIVE" => store[id].KubeConfig # ""

\* C34: when two Update requests on one ID whose patches have no field in
\* common have both been answered 200, the record in the store has the
\* patched value of every field of both patches.
C34_BothUpdatesTakeEffect ==
    \A r1 \in 1..Len(reqs), r2 \in 1..Len(reqs) :
        (/\ r1 # r2
         /\ reqs[r1].kind = "Update" /\ reqs[r2].kind = "Update"
         /\ reqs[r1].pc = "go" /\ reqs[r2].pc = "go"
         /\ reqs[r1].code = 200 /\ reqs[r2].code = 200
         /\ reqs[r1].env.ID = reqs[r2].env.ID
         /\ \A f \in PatchFields :
               reqs[r1].patch[f] = Nil \/ reqs[r2].patch[f] = Nil) =>
            LET rec == UnmarshalMap(store[reqs[r1].env.ID])
            IN  \A f \in PatchFields :
                   /\ reqs[r1].patch[f] # Nil => rec[f] = reqs[r1].env[f]
                   /\ reqs[r2].patch[f] # Nil => rec[f] = reqs[r2].env[f]

\* C35: two records of the store with different IDs have different
\* ClusterNames.
C35_ClusterNamesDiffer ==
    \A id1 \in DOMAIN store, id2 \in DOMAIN store :
        id1 # id2 => store[id1].ClusterName # store[id2].ClusterName

\* the credentials the apply of an environment's own variables can yield
C36_OwnCredentials(env) ==
    { Outputs(TerraformVars(env), shape).kubeconfig[1] :
        shape \in { sh \in OutputShapes :
                      Outputs(TerraformVars(env), sh).kubeconfig # Nil } }

\* C36: the Status and the credential a create workflow persists at its end
\* are those of its own provisioning, whatever another create workflow does
\* through the same module: the credential written with ACTIVE is one of the
\* environment's own cluster, and ERROR is written for a missing credential
\* only when the workflow's own apply yielded none.
C36_NonInterference ==
    [][ \A i \in 1..Len(creates) :
          LET id == creates[i].env.ID
              ends == creates'[i].pc = "done" /\ store' # store
          IN  /\ (creates[i].pc = "set_active" /\ ends) =>
                    store'[id].KubeConfig \in C36_OwnCredentials(creates[i].env)
              /\ (/\ creates[i].pc = "set_error" /\ ends
                  /\ creates[i].message = "Failed to get kubeconfig") =>
                    creates[i].applied.kubeconfig = Nil ]_vars

\* C37: when the last call of the executor is an Apply that has returned nil
\* and every other call has returned, the directory GetOutputs chooses for
\* the module of this Apply is the working directory of this Apply, whatever
\* the name of the module.
C37_OutputsOfOwnApply ==
    \A k \in 1..Len(calls) :
        (/\ k = Len(calls)
         /\ calls[k].op = "Apply"
         /\ calls[k].returned /\ calls[k].err = Nil
         /\ \A j \in 1..Len(calls) : calls[j].returned) =>
            LatestDir(DOMAIN dirs, calls[k].module) = calls[k].workDir

(***************************************************************************)
(* Further properties of the tenant controller.                            *)
(***************************************************************************)
\* an object that has the label managed-by=tenant-controller
C38_Owned(obj) ==
    /\ "managed-by" \in DOMAIN obj.labels
    /\ obj.labels["managed-by"] = "tenant-controller"

\* C38: every write call the controller issues is on an object of its own:
\* an update is of an object that has the label
\* managed-by=tenant-controller, and a quota, policy or role binding is
\* created in a namespace that has it.
C38_WritesOnlyOwnObjects ==
    [][ \A i \in (Len(api) + 1)..Len(api') :
          LET key == api'[i].key
              ns == Key("Namespace", "", key[2])
          IN  /\ api'[i].verb = "update" => C38_Owned(cluster[key])
              /\ (api'[i].verb = "create" /\ key[1] # "Namespace") =>
                    (ns \in DOMAIN cluster /\ C38_Owned(cluster[ns])) ]_vars

\* C39: after a pass without failure, for every declared namespace and every
\* index i of the tenant's AllowIngressFromCIDR, the policy
\* "allow-ingress-cidr-i" of the namespace exists and allows exactly the
\* CIDR that is declared at index i.
C39_CIDRPolicyIsCurrent ==
    PassSucceeded =>
        \A t \in 1..Len(ctl.list) :
            \A ns \in Range(ctl.list[t].Namespaces) :
                LET cidrs == ctl.list[t].NetworkPolicy.AllowIngressFromCIDR
                IN  \A i \in 0..(Len(cidrs) - 1) :
                       LET key == Key("NetworkPolicy", ns, CIDRPolicyName(i))
                       IN  /\ key \in DOMAIN cluster
                           /\ cluster[key].ingress
                                = <<[From |-> <<IPPeer(cidrs[i + 1])>>]>>

(***************************************************************************)
(* Termination of the create workflow.                                     *)
(***************************************************************************)
\* C40: every record that is created has, at some later time, Status ACTIVE
\* or ERROR, whatever the outcome of each step of its workflow, when no
\* other request is issued.
C40_EndsActiveOrError ==
    \A id \in UUIDs :
        (id \in DOMAIN store) ~>
            (id \in DOMAIN store /\ store[id].Status \in {"ACTIVE", "ERROR"})

====
